---- MODULE Spec2Model ----
(***************************************************************************)
(* Model of convert_chase_cc_statement_pdf_to_tsv.py: the line cursor      *)
(* (io_manager), the record grammars (period, transaction header,          *)
(* transaction record) and the record state machine (record_parser).       *)
(*                                                                         *)
(* A line is a byte string of Python 2 that holds UTF-8 text: an element   *)
(* of a line is one byte, written as a one-character string, and a         *)
(* character outside ASCII is two bytes of the line.  The input is a       *)
(* sequence of lines.  The regular expressions of the program are matched  *)
(* byte by byte.                                                           *)
(***************************************************************************)
EXTENDS Integers, Sequences, FiniteSets, TLC

\* ------------------------------------------------------------------------
\* Bounds of the model.

\* Longest input made of arbitrary lines of the vocabulary.
MaxLines == 3

\* Longest run of arbitrary lines after a matched period and header.
MaxBody == 3

\* Longest run of arbitrary lines in each block of a statement of two
\* headers.
MaxBlock == 1

\* ------------------------------------------------------------------------
\* Characters.

Digits == {"0", "1", "2", "3", "4", "5", "6", "7", "8", "9"}

Capitals == {"A", "B", "C", "D", "E", "F", "G", "H", "I", "J", "K", "L", "M",
             "N", "O", "P", "Q", "R", "S", "T", "U", "V", "W", "X", "Y", "Z"}

\* int() of one decimal digit.
DigitVal == ("0" :> 0) @@ ("1" :> 1) @@ ("2" :> 2) @@ ("3" :> 3) @@ ("4" :> 4)
         @@ ("5" :> 5) @@ ("6" :> 6) @@ ("7" :> 7) @@ ("8" :> 8) @@ ("9" :> 9)

\* ord() of the bytes of the class of string_escaper that a line of the
\* model can hold.  A byte that has no spelling in a string of this language
\* is written as a name between angle brackets and counts as one byte.  The
\* bytes from 128 on are in a line as the second byte of a character only.
control_ord == ("\t" :> 9) @@ ("\f" :> 12) @@ ("\r" :> 13)
               @@ ("<NUL>" :> 0) @@ ("<US>" :> 31) @@ ("<DEL>" :> 127)
               @@ ("<PAD>" :> 128) @@ ("<NEL>" :> 133) @@ ("<HTJ>" :> 137)
               @@ ("<APC>" :> 159)

HexDigit == <<"0", "1", "2", "3", "4", "5", "6", "7", "8", "9",
              "a", "b", "c", "d", "e", "f">>

AllDigits(s) == \A i \in 1..Len(s) : s[i] \in Digits

AllCapitals(s) == \A i \in 1..Len(s) : s[i] \in Capitals

\* The characters of s from position i on.
From(s, i) == SubSeq(s, i, Len(s))

\* int() of a string of decimal digits.
RECURSIVE int(_)
int(s) == IF Len(s) = 0 THEN 0
          ELSE 10 * int(SubSeq(s, 1, Len(s) - 1)) + DigitVal[s[Len(s)]]

\* list.reverse()
RECURSIVE Reverse(_)
Reverse(s) == IF Len(s) = 0 THEN <<>>
              ELSE Append(Reverse(Tail(s)), Head(s))

\* ------------------------------------------------------------------------
\* Utilities.

\* string.replace(",", "")
RECURSIVE remove_commas(_)
remove_commas(s) ==
  IF Len(s) = 0 THEN <<>>
  ELSE IF Head(s) = "," THEN remove_commas(Tail(s))
  ELSE <<Head(s)>> \o remove_commas(Tail(s))

Whitespace == {" ", "\t", "\f", "\r", "\n"}

\* The strip() that float() applies to its argument.
RECURSIVE lstrip(_)
lstrip(s) == IF Len(s) > 0 /\ Head(s) \in Whitespace THEN lstrip(Tail(s)) ELSE s

RECURSIVE rstrip(_)
rstrip(s) == IF Len(s) > 0 /\ s[Len(s)] \in Whitespace
             THEN rstrip(SubSeq(s, 1, Len(s) - 1)) ELSE s

\* Positions of the characters of s that belong to set cs.
Positions(s, cs) == {i \in 1..Len(s) : s[i] \in cs}

\* digits [ "." digits ], with at least one digit in all.
IsMantissa(s) ==
  /\ Cardinality(Positions(s, {"."})) <= 1
  /\ Positions(s, Digits) # {}
  /\ \A i \in 1..Len(s) : s[i] \in Digits \cup {"."}

\* [ sign ] digits
IsExponent(s) ==
  LET d == IF Len(s) > 0 /\ s[1] \in {"+", "-"} THEN Tail(s) ELSE s
  IN Len(d) > 0 /\ AllDigits(d)

\* The decimal literals float() accepts: [sign] mantissa [ (e|E) exponent ],
\* surrounded by optional white space.
IsFloatText(t) ==
  LET s == rstrip(lstrip(t))
      u == IF Len(s) > 0 /\ s[1] \in {"+", "-"} THEN Tail(s) ELSE s
      es == Positions(u, {"e", "E"})
  IN IF es = {} THEN IsMantissa(u)
     ELSE LET e == CHOOSE i \in es : \A j \in es : i <= j
          IN /\ IsMantissa(SubSeq(u, 1, e - 1))
             /\ IsExponent(From(u, e + 1))

\* str_to_float: the number is kept as its text without separators; a text
\* float() rejects raises ValueError.
str_to_float(string) ==
  LET t == remove_commas(string)
  IN [ok |-> IsFloatText(t), value |-> rstrip(lstrip(t))]

\* string_escaper with the bug of a class that leaves out the tab.
RECURSIVE escape_str_keeps_tab(_)
escape_str_keeps_tab(string) ==
  IF Len(string) = 0 THEN <<>>
  ELSE LET c == Head(string)
       IN (IF c \in DOMAIN control_ord /\ c # "\t"
           THEN <<"\\", "x", HexDigit[(control_ord[c] \div 16) + 1],
                             HexDigit[(control_ord[c] % 16) + 1]>>
           ELSE <<c>>) \o escape_str_keeps_tab(Tail(string))

\* string_escaper.__call__: the class of the codes 0 to 31 and 127 to 159
\* is matched against the byte string byte by byte, and every byte of the
\* class becomes \xHH, the second byte of a two-byte character included.
RECURSIVE escape_str(_)
escape_str(string) ==
  IF Len(string) = 0 THEN <<>>
  ELSE LET c == Head(string)
       IN (IF c \in DOMAIN control_ord
           THEN <<"\\", "x", HexDigit[(control_ord[c] \div 16) + 1],
                             HexDigit[(control_ord[c] % 16) + 1]>>
           ELSE <<c>>) \o escape_str(Tail(string))

\* ------------------------------------------------------------------------
\* Value types.

\* month_day.__init__ with the bug of asserting nothing.
month_day_ok_unchecked(month, day) == month \in Nat /\ day \in Nat

\* month_day.__init__: the two range assertions.
month_day_ok(month, day) == month \in 1..12 /\ day \in 1..31

month_day(month, day) == [month |-> month, day |-> day]

\* month_day_year.__init__: the base class assertions, then the year's.
month_day_year_ok(month, day, year) ==
  month_day_ok(month, day) /\ year \in 0..99

month_day_year(month, day, year) == [month |-> month, day |-> day, year |-> year]

period(opening, closing) == [opening |-> opening, closing |-> closing]

transit_leg(code, departure, arrival) ==
  [code |-> code, departure |-> departure, arrival |-> arrival]

domestic_transaction_record(date, description, amount) ==
  [type |-> "DOMESTIC", date |-> date, description |-> description,
   amount |-> amount]

foreign_transaction_record(date, description, amount, exchange_date, exchange_currency, exchange_amount, exchange_rate) ==
  [type |-> "FOREIGN", date |-> date, description |-> description,
   amount |-> amount, exchange_date |-> exchange_date,
   exchange_currency |-> exchange_currency,
   exchange_amount |-> exchange_amount, exchange_rate |-> exchange_rate]

transit_transaction_record(date, description, amount, transit_id, transit_legs) ==
  [type |-> "TRANSIT", date |-> date, description |-> description,
   amount |-> amount, transit_id |-> transit_id, transit_legs |-> transit_legs]

\* ------------------------------------------------------------------------
\* io_manager: the input stream and the month to year mapping.  An iom is a
\* record of input_sequence (the unconsumed lines, reversed: the next line
\* is the last element), month_year_mapping and consumed (the lines next()
\* has returned so far, in that order).

\* io_manager.__init__: the lines are reversed, the mapping is empty.
io_manager(lines) ==
  [input_sequence |-> Reverse(lines), month_year_mapping |-> <<>>,
   consumed |-> <<>>]

\* next() with the bug of popping the first element of the reversed list.
next_pop_front(iom) ==
  LET n == Len(iom.input_sequence)
  IN IF n = 0
     THEN [stop |-> TRUE, line |-> <<>>, iom |-> iom]
     ELSE [stop |-> FALSE, line |-> iom.input_sequence[1],
           iom |-> [iom EXCEPT !.input_sequence = Tail(@),
                               !.consumed = Append(@, iom.input_sequence[1])]]

\* next() with the bug of taking an empty line for the end of the input.
next_stops_on_empty(iom) ==
  LET n == Len(iom.input_sequence)
  IN IF n = 0 \/ iom.input_sequence[n] = <<>>
     THEN [stop |-> TRUE, line |-> <<>>, iom |-> iom]
     ELSE [stop |-> FALSE, line |-> iom.input_sequence[n],
           iom |-> [iom EXCEPT !.input_sequence = SubSeq(@, 1, n - 1),
                               !.consumed = Append(@, iom.input_sequence[n])]]

\* io_manager.next: pop the last element; stop is StopIteration.
next(iom) ==
  LET n == Len(iom.input_sequence)
  IN IF n = 0
     THEN [stop |-> TRUE, line |-> <<>>, iom |-> iom]
     ELSE [stop |-> FALSE, line |-> iom.input_sequence[n],
           iom |-> [iom EXCEPT !.input_sequence = SubSeq(@, 1, n - 1),
                               !.consumed = Append(@, iom.input_sequence[n])]]

\* __getitem__ with the bug of indexing the reversed list from its front.
getitem_from_front(iom, n) ==
  IF Len(iom.input_sequence) <= n THEN <<>>
  ELSE iom.input_sequence[n + 1]

\* io_manager.__getitem__: the (n + 1)th unconsumed line, or ''.
\* __getitem__ with the bug of handing out the line consumed last when the
\* (n + 1)th line does not exist.
getitem_keeps_last_line(iom, n) ==
  IF Len(iom.input_sequence) <= n
  THEN IF iom.consumed = <<>> THEN <<>>
       ELSE iom.consumed[Len(iom.consumed)]
  ELSE iom.input_sequence[Len(iom.input_sequence) - n]

getitem(iom, n) ==
  IF Len(iom.input_sequence) <= n THEN <<>>
  ELSE iom.input_sequence[Len(iom.input_sequence) - n]

\* add_month_year_mapping with the bug of adding the closing date of a
\* period before the opening date.
RECURSIVE add_month_year_mapping_closing_first(_, _)
add_month_year_mapping_closing_first(mapping, t) ==
  IF "opening" \in DOMAIN t
  THEN add_month_year_mapping_closing_first(
         add_month_year_mapping_closing_first(mapping, t.closing), t.opening)
  ELSE [m \in DOMAIN mapping \cup {t.month} |->
          IF m = t.month THEN t.year ELSE mapping[m]]

\* io_manager.add_month_year_mapping on the mapping: a month_day_year sets
\* one entry, a period sets the opening's and then the closing's.
RECURSIVE add_month_year_mapping(_, _)
add_month_year_mapping(mapping, t) ==
  IF "opening" \in DOMAIN t
  THEN add_month_year_mapping(add_month_year_mapping(mapping, t.opening),
                              t.closing)
  ELSE [m \in DOMAIN mapping \cup {t.month} |->
          IF m = t.month THEN t.year ELSE mapping[m]]

\* add_year with the bug of guessing year 0 for a month with no mapping.
add_year_guesses(iom, date) ==
  LET year == IF date.month \in DOMAIN iom.month_year_mapping
              THEN iom.month_year_mapping[date.month]
              ELSE 0
  IN IF month_day_year_ok(date.month, date.day, year)
     THEN [ok |-> TRUE, error |-> "none",
           value |-> month_day_year(date.month, date.day, year)]
     ELSE [ok |-> FALSE, error |-> "invalid_date", value |-> date]

\* add_year with the bug of passing the day as the month and the month as
\* the day.
add_year_swapped(iom, date) ==
  IF date.month \notin DOMAIN iom.month_year_mapping
  THEN [ok |-> FALSE, error |-> "unmapped_month", value |-> date]
  ELSE LET year == iom.month_year_mapping[date.month]
       IN IF month_day_year_ok(date.day, date.month, year)
          THEN [ok |-> TRUE, error |-> "none",
                value |-> month_day_year(date.day, date.month, year)]
          ELSE [ok |-> FALSE, error |-> "invalid_date", value |-> date]

\* io_manager.add_year: the assertion on the month, then month_day_year().
add_year(iom, date) ==
  IF date.month \notin DOMAIN iom.month_year_mapping
  THEN [ok |-> FALSE, error |-> "unmapped_month", value |-> date]
  ELSE LET year == iom.month_year_mapping[date.month]
       IN IF month_day_year_ok(date.month, date.day, year)
          THEN [ok |-> TRUE, error |-> "none",
                value |-> month_day_year(date.month, date.day, year)]
          ELSE [ok |-> FALSE, error |-> "invalid_date", value |-> date]

\* ------------------------------------------------------------------------
\* Grammar.  Each engine is the match() of a compiled rule on one line: it
\* says whether the line matches and gives the captured groups.  A line
\* holds no newline (the input is split at newlines), so '$' is the end of
\* the line.

NoMatch == [matched |-> FALSE, groups |-> <<>>]

\* '.' matches any character but a newline.
AnyChar(c) == c # "\n"

two_digits_rule(s, i) ==
  i + 1 <= Len(s) /\ s[i] \in Digits /\ s[i + 1] \in Digits

\* ([0-9]{2})/([0-9]{2}) at position i.
month_day_rule(s, i) ==
  /\ two_digits_rule(s, i)
  /\ i + 2 <= Len(s) /\ s[i + 2] = "/"
  /\ two_digits_rule(s, i + 3)

\* ([0-9]{2})/([0-9]{2})/([0-9]{2}) at position i.
month_day_year_rule(s, i) ==
  /\ month_day_rule(s, i)
  /\ i + 5 <= Len(s) /\ s[i + 5] = "/"
  /\ two_digits_rule(s, i + 6)

OpeningClosingDate == <<"O", "p", "e", "n", "i", "n", "g", "/", "C", "l", "o", "s", "i", "n",
                      "g", " ", "D", "a", "t", "e", " ">>

\* period_meta_data_engine.match(line)
period_meta_data_engine(line) ==
  IF /\ Len(line) = 40
     /\ SubSeq(line, 1, 21) = OpeningClosingDate
     /\ month_day_year_rule(line, 22)
     /\ SubSeq(line, 30, 32) = <<" ", "-", " ">>
     /\ month_day_year_rule(line, 33)
  THEN [matched |-> TRUE,
        groups |-> <<SubSeq(line, 22, 23), SubSeq(line, 25, 26),
                     SubSeq(line, 28, 29), SubSeq(line, 33, 34),
                     SubSeq(line, 36, 37), SubSeq(line, 39, 40)>>]
  ELSE NoMatch

\* The rest of positive_quantity_rule from position p of u to the end of u,
\* after the leading digits: (?:,[0-9]{3})*.[0-9]*
RECURSIVE thousands_rule(_, _)
thousands_rule(u, p) ==
  \/ /\ p + 3 <= Len(u)
     /\ u[p] = ","
     /\ AllDigits(SubSeq(u, p + 1, p + 3))
     /\ thousands_rule(u, p + 4)
  \/ /\ p <= Len(u)
     /\ AnyChar(u[p])
     /\ AllDigits(From(u, p + 1))

\* positive_quantity_rule matches all of u:
\* [0-9]{1,3}(?:,[0-9]{3})*.[0-9]*  (the '.' of the rule is not escaped)
positive_quantity_rule(u) ==
  \E n \in 1..3 : /\ n <= Len(u)
                  /\ AllDigits(SubSeq(u, 1, n))
                  /\ thousands_rule(u, n + 1)

\* quantity_rule matches all of t: -?positive_quantity_rule
quantity_rule(t) ==
  IF Len(t) > 0 /\ t[1] = "-" THEN positive_quantity_rule(Tail(t))
  ELSE positive_quantity_rule(t)

\* The positions k of the space between description and amount for which
\* the rest of the line is an amount.
amount_splits(line) ==
  {k \in 7..Len(line) : line[k] = " " /\ quantity_rule(From(line, k + 1))}

\* domestic_transaction_record_engine.match(line); the description is
\* greedy, so the split is the last one possible.
domestic_transaction_record_engine(line) ==
  IF /\ month_day_rule(line, 1)
     /\ Len(line) >= 6 /\ line[6] = " "
     /\ amount_splits(line) # {}
  THEN LET k == CHOOSE x \in amount_splits(line) :
                  \A y \in amount_splits(line) : y <= x
       IN [matched |-> TRUE,
           groups |-> <<SubSeq(line, 1, 2), SubSeq(line, 4, 5),
                        SubSeq(line, 7, k - 1), From(line, k + 1)>>]
  ELSE NoMatch

\* exchange_date_and_currency_engine.match(line)
exchange_date_and_currency_engine(line) ==
  IF month_day_rule(line, 1) /\ Len(line) >= 6 /\ line[6] = " "
  THEN [matched |-> TRUE,
        groups |-> <<SubSeq(line, 1, 2), SubSeq(line, 4, 5), From(line, 7)>>]
  ELSE NoMatch

ExchgRate == <<" ", "(", "E", "X", "C", "H", "G", " ", "R", "A", "T", "E", ")">>

\* The positions j of " X " in m with a quantity before and a positive
\* quantity after; there is at most one.
rate_splits(m) ==
  {j \in 1..(Len(m) - 2) : /\ SubSeq(m, j, j + 2) = <<" ", "X", " ">>
                           /\ quantity_rule(SubSeq(m, 1, j - 1))
                           /\ positive_quantity_rule(From(m, j + 3))}

\* exchange_rate_calculation_engine.match(line)
exchange_rate_calculation_engine(line) ==
  IF Len(line) >= 13 /\ From(line, Len(line) - 12) = ExchgRate
  THEN LET m == SubSeq(line, 1, Len(line) - 13)
       IN IF rate_splits(m) = {} THEN NoMatch
          ELSE LET j == CHOOSE x \in rate_splits(m) : TRUE
               IN [matched |-> TRUE,
                   groups |-> <<SubSeq(m, 1, j - 1), From(m, j + 3)>>]
  ELSE NoMatch

\* transit_leg_rule at position i to the end of the line:
\* [0-9] ([A-Z]) ([A-Z]{3}) ([A-Z]{3})$
transit_leg_rule(s, i) ==
  /\ Len(s) = i + 10
  /\ s[i] \in Digits
  /\ s[i + 1] = " " /\ s[i + 2] \in Capitals
  /\ s[i + 3] = " " /\ AllCapitals(SubSeq(s, i + 4, i + 6))
  /\ s[i + 7] = " " /\ AllCapitals(SubSeq(s, i + 8, i + 10))

\* transit_leg_engine.match(line)
transit_leg_engine(line) ==
  IF transit_leg_rule(line, 1)
  THEN [matched |-> TRUE,
        groups |-> <<SubSeq(line, 3, 3), SubSeq(line, 5, 7),
                     SubSeq(line, 9, 11)>>]
  ELSE NoMatch

\* transit_leg_with_id_engine.match(line)
transit_leg_with_id_engine(line) ==
  IF /\ Len(line) >= 7
     /\ AllDigits(SubSeq(line, 1, 6))
     /\ line[7] = " "
     /\ transit_leg_rule(line, 8)
  THEN [matched |-> TRUE,
        groups |-> <<SubSeq(line, 1, 6), SubSeq(line, 10, 10),
                     SubSeq(line, 12, 14), SubSeq(line, 16, 18)>>]
  ELSE NoMatch

\* ------------------------------------------------------------------------
\* Parsers.  A call of a parser on an iom has an outcome: ret is what the
\* call returns ("True", "False", "None") or "raise" when an exception
\* leaves it, error names the exception, iom is the iom after the call and
\* values holds the values the parser passed to its action, in order.

Returned(ret, iom, values) ==
  [ret |-> ret, error |-> "none", iom |-> iom, values |-> values]

Raised(error, iom) ==
  [ret |-> "raise", error |-> error, iom |-> iom, values |-> <<>>]

\* bool() of what a parser returns.
Truthy(ret) == ret = "True"

\* The period parser with the bug of consuming the line before the match
\* is tested.
period_parser_consume_first(iom) ==
  LET match == period_meta_data_engine(getitem(iom, 0))
      g == match.groups
      n == next(iom)
  IN IF n.stop THEN Returned("False", iom, <<>>)
     ELSE IF ~match.matched THEN Returned("False", n.iom, <<>>)
     ELSE IF ~month_day_year_ok(int(g[1]), int(g[2]), int(g[3]))
          THEN Raised("invalid_date", n.iom)
     ELSE IF ~month_day_year_ok(int(g[4]), int(g[5]), int(g[6]))
          THEN Raised("invalid_date", n.iom)
     ELSE Returned("True", n.iom,
            <<period(month_day_year(int(g[1]), int(g[2]), int(g[3])),
                     month_day_year(int(g[4]), int(g[5]), int(g[6])))>>)

\* period_meta_data_record_parser.__call__
period_meta_data_record_parser(iom) ==
  LET match == period_meta_data_engine(getitem(iom, 0))
      g == match.groups
      n == next(iom)
  IN IF ~match.matched THEN Returned("False", iom, <<>>)
     ELSE IF n.stop THEN Raised("peeked_lines", iom)
     ELSE IF ~month_day_year_ok(int(g[1]), int(g[2]), int(g[3]))
          THEN Raised("invalid_date", n.iom)
     ELSE IF ~month_day_year_ok(int(g[4]), int(g[5]), int(g[6]))
          THEN Raised("invalid_date", n.iom)
     ELSE Returned("True", n.iom,
            <<period(month_day_year(int(g[1]), int(g[2]), int(g[3])),
                     month_day_year(int(g[4]), int(g[5]), int(g[6])))>>)

\* The non-transaction record parser with the bug of matching when no line
\* is left.
non_transaction_record_parser_always_true(iom) ==
  LET n == next(iom)
  IN IF n.stop THEN Returned("True", iom, <<>>)
     ELSE Returned("True", n.iom, <<escape_str(n.line)>>)

\* The non-transaction record parser with the bug of passing the line as
\* it was read.
non_transaction_record_parser_raw(iom) ==
  LET n == next(iom)
  IN IF n.stop THEN Returned("False", iom, <<>>)
     ELSE Returned("True", n.iom, <<n.line>>)

\* always_match_parser.__call__ with the action of
\* non_transaction_record_parser.__call__: the next line, escaped.
non_transaction_record_parser(iom) ==
  LET n == next(iom)
  IN IF n.stop THEN Returned("False", iom, <<>>)
     ELSE Returned("True", n.iom, <<escape_str(n.line)>>)

DateOf == <<"D", "a", "t", "e", " ", "o", "f">>

TransactionMerchantName == <<"T", "r", "a", "n", "s", "a", "c", "t", "i", "o", "n", " ", "M",
                             "e", "r", "c", "h", "a", "n", "t", " ", "N", "a", "m", "e", " ",
                             "o", "r", " ", "T", "r", "a", "n", "s", "a", "c", "t", "i", "o",
                             "n", " ", "D", "e", "s", "c", "r", "i", "p", "t", "i", "o", "n",
                             " ", "$", " ", "A", "m", "o", "u", "n", "t">>

\* The header parser with the bug of returning True, with nothing consumed,
\* when only the first line matches.
header_parser_true_on_first_line(iom) ==
  IF getitem(iom, 0) = DateOf
  THEN IF getitem(iom, 1) = TransactionMerchantName
       THEN LET n1 == next(iom)
                n2 == next(n1.iom)
            IN IF n1.stop THEN Raised("peeked_lines", iom)
               ELSE IF n2.stop THEN Raised("peeked_lines", n1.iom)
               ELSE Returned("True", n2.iom,
                             <<n1.line \o <<"\\", "n">> \o n2.line>>)
       ELSE Returned("True", iom, <<>>)
  ELSE Returned("False", iom, <<>>)

\* transaction_header_record_parser.__call__: when the first line matches
\* and the second does not, the call runs off its end and returns None.
transaction_header_record_parser(iom) ==
  IF getitem(iom, 0) = DateOf
  THEN IF getitem(iom, 1) = TransactionMerchantName
       THEN LET n1 == next(iom)
                n2 == next(n1.iom)
            IN IF n1.stop THEN Raised("peeked_lines", iom)
               ELSE IF n2.stop THEN Raised("peeked_lines", n1.iom)
               ELSE Returned("True", n2.iom,
                             <<n1.line \o <<"\\", "n">> \o n2.line>>)
       ELSE Returned("None", iom, <<>>)
  ELSE Returned("False", iom, <<>>)

\* The while loop with the bug of consuming the line that ends the loop.
RECURSIVE transit_leg_loop_swallows(_, _)
transit_leg_loop_swallows(iom, transit_legs) ==
  LET transitN_match == transit_leg_engine(getitem(iom, 0))
      g == transitN_match.groups
      n == next(iom)
  IN IF ~transitN_match.matched
     THEN Returned("True", n.iom, <<transit_legs>>)
     ELSE IF n.stop THEN Raised("peeked_lines", iom)
     ELSE transit_leg_loop_swallows(n.iom,
            Append(transit_legs, transit_leg(g[1], g[2], g[3])))

\* The while loop with the bug of putting each new leg before the others.
RECURSIVE transit_leg_loop_prepends(_, _)
transit_leg_loop_prepends(iom, transit_legs) ==
  LET transitN_match == transit_leg_engine(getitem(iom, 0))
      g == transitN_match.groups
      n == next(iom)
  IN IF ~transitN_match.matched
     THEN Returned("True", iom, <<transit_legs>>)
     ELSE IF n.stop THEN Raised("peeked_lines", iom)
     ELSE transit_leg_loop_prepends(n.iom,
            <<transit_leg(g[1], g[2], g[3])>> \o transit_legs)

\* The while loop of transaction_record_parser.__call__: consume transit
\* leg lines as long as the next line is one.
RECURSIVE transit_leg_loop(_, _)
transit_leg_loop(iom, transit_legs) ==
  LET transitN_match == transit_leg_engine(getitem(iom, 0))
      g == transitN_match.groups
      n == next(iom)
  IN IF ~transitN_match.matched
     THEN Returned("True", iom, <<transit_legs>>)
     ELSE IF n.stop THEN Raised("peeked_lines", iom)
     ELSE transit_leg_loop(n.iom,
            Append(transit_legs, transit_leg(g[1], g[2], g[3])))

\* The foreign branch with the bug of consuming one of the two peeked lines.
foreign_branch_one_line(iom, date, description, amount, foreign3_match) ==
  LET foreign2_match == exchange_date_and_currency_engine(getitem(iom, 0))
      g2 == foreign2_match.groups
      g3 == foreign3_match.groups
      n1 == next(iom)
      exchange_date == add_year(n1.iom, month_day(int(g2[1]), int(g2[2])))
      exchange_amount == str_to_float(g3[1])
      exchange_rate == str_to_float(g3[2])
  IN IF ~foreign2_match.matched THEN Raised("foreign_2nd_line", iom)
     ELSE IF n1.stop THEN Raised("peeked_lines", iom)
     ELSE IF ~month_day_ok(int(g2[1]), int(g2[2]))
          THEN Raised("invalid_date", n1.iom)
     ELSE IF ~exchange_date.ok THEN Raised(exchange_date.error, n1.iom)
     ELSE IF ~exchange_amount.ok \/ ~exchange_rate.ok
          THEN Raised("ValueError", n1.iom)
     ELSE Returned("True", n1.iom,
            <<foreign_transaction_record(date, description, amount,
                exchange_date.value, escape_str(g2[3]),
                exchange_amount.value, exchange_rate.value)>>)

\* The foreign branch with the bug of reporting a Domestic record when the
\* second line does not match.
foreign_branch_falls_back(iom, date, description, amount, foreign3_match) ==
  LET foreign2_match == exchange_date_and_currency_engine(getitem(iom, 0))
      g2 == foreign2_match.groups
      g3 == foreign3_match.groups
      n1 == next(iom)
      n2 == next(n1.iom)
      exchange_date == add_year(n2.iom, month_day(int(g2[1]), int(g2[2])))
      exchange_amount == str_to_float(g3[1])
      exchange_rate == str_to_float(g3[2])
  IN IF ~foreign2_match.matched
     THEN Returned("True", iom,
            <<domestic_transaction_record(date, description, amount)>>)
     ELSE IF n1.stop \/ n2.stop THEN Raised("peeked_lines", n1.iom)
     ELSE IF ~month_day_ok(int(g2[1]), int(g2[2]))
          THEN Raised("invalid_date", n2.iom)
     ELSE IF ~exchange_date.ok THEN Raised(exchange_date.error, n2.iom)
     ELSE IF ~exchange_amount.ok \/ ~exchange_rate.ok
          THEN Raised("ValueError", n2.iom)
     ELSE Returned("True", n2.iom,
            <<foreign_transaction_record(date, description, amount,
                exchange_date.value, escape_str(g2[3]),
                exchange_amount.value, exchange_rate.value)>>)

\* The foreign branch of transaction_record_parser.__call__, entered with
\* the lead line consumed and the exchange rate line matched.
foreign_branch(iom, date, description, amount, foreign3_match) ==
  LET foreign2_match == exchange_date_and_currency_engine(getitem(iom, 0))
      g2 == foreign2_match.groups
      g3 == foreign3_match.groups
      n1 == next(iom)
      n2 == next(n1.iom)
      exchange_date == add_year(n2.iom, month_day(int(g2[1]), int(g2[2])))
      exchange_amount == str_to_float(g3[1])
      exchange_rate == str_to_float(g3[2])
  IN IF ~foreign2_match.matched THEN Raised("foreign_2nd_line", iom)
     ELSE IF n1.stop \/ n2.stop THEN Raised("peeked_lines", n1.iom)
     ELSE IF ~month_day_ok(int(g2[1]), int(g2[2]))
          THEN Raised("invalid_date", n2.iom)
     ELSE IF ~exchange_date.ok THEN Raised(exchange_date.error, n2.iom)
     ELSE IF ~exchange_amount.ok \/ ~exchange_rate.ok
          THEN Raised("ValueError", n2.iom)
     ELSE Returned("True", n2.iom,
            <<foreign_transaction_record(date, description, amount,
                exchange_date.value, escape_str(g2[3]),
                exchange_amount.value, exchange_rate.value)>>)

\* The transit branch, entered with the lead line consumed and the transit
\* leg with id line matched.
transit_branch(iom, date, description, amount, transit2_match) ==
  LET g == transit2_match.groups
      n == next(iom)
      loop == transit_leg_loop(n.iom, <<transit_leg(g[2], g[3], g[4])>>)
  IN IF n.stop THEN Raised("peeked_lines", iom)
     ELSE IF loop.ret = "raise" THEN loop
     ELSE Returned("True", loop.iom,
            <<transit_transaction_record(date, description, amount,
                int(g[1]), loop.values[1])>>)

\* The record parser with the bug of making the Transit check before the
\* Foreign check.
record_parser_transit_first(iom) ==
  LET domestic_match == domestic_transaction_record_engine(getitem(iom, 0))
      g == domestic_match.groups
      n == next(iom)
      date == add_year(n.iom, month_day(int(g[1]), int(g[2])))
      description == escape_str(g[3])
      amount == str_to_float(g[4])
      foreign3_match == exchange_rate_calculation_engine(getitem(n.iom, 1))
      transit2_match == transit_leg_with_id_engine(getitem(n.iom, 0))
  IN IF ~domestic_match.matched THEN Returned("False", iom, <<>>)
     ELSE IF n.stop THEN Raised("peeked_lines", iom)
     ELSE IF ~month_day_ok(int(g[1]), int(g[2]))
          THEN Raised("invalid_date", n.iom)
     ELSE IF ~date.ok THEN Raised(date.error, n.iom)
     ELSE IF ~amount.ok THEN Raised("ValueError", n.iom)
     ELSE IF transit2_match.matched
          THEN transit_branch(n.iom, date.value, description, amount.value,
                              transit2_match)
     ELSE IF foreign3_match.matched
          THEN foreign_branch(n.iom, date.value, description, amount.value,
                              foreign3_match)
     ELSE Returned("True", n.iom,
            <<domestic_transaction_record(date.value, description,
                                          amount.value)>>)

\* transaction_record_parser.__call__ with the bug of building the date and
\* the amount of the lead line before the line is consumed.
transaction_record_parser_checks_first(iom) ==
  LET domestic_match == domestic_transaction_record_engine(getitem(iom, 0))
      g == domestic_match.groups
      n == next(iom)
      date == add_year(n.iom, month_day(int(g[1]), int(g[2])))
      description == escape_str(g[3])
      amount == str_to_float(g[4])
      foreign3_match == exchange_rate_calculation_engine(getitem(n.iom, 1))
      transit2_match == transit_leg_with_id_engine(getitem(n.iom, 0))
  IN IF ~domestic_match.matched THEN Returned("False", iom, <<>>)
     ELSE IF n.stop THEN Raised("peeked_lines", iom)
     ELSE IF ~month_day_ok(int(g[1]), int(g[2]))
          THEN Raised("invalid_date", iom)
     ELSE IF ~date.ok THEN Raised(date.error, iom)
     ELSE IF ~amount.ok THEN Raised("ValueError", iom)
     ELSE IF foreign3_match.matched
          THEN foreign_branch(n.iom, date.value, description, amount.value,
                              foreign3_match)
     ELSE IF transit2_match.matched
          THEN transit_branch(n.iom, date.value, description, amount.value,
                              transit2_match)
     ELSE Returned("True", n.iom,
            <<domestic_transaction_record(date.value, description,
                                          amount.value)>>)

\* transaction_record_parser.__call__
transaction_record_parser(iom) ==
  LET domestic_match == domestic_transaction_record_engine(getitem(iom, 0))
      g == domestic_match.groups
      n == next(iom)
      date == add_year(n.iom, month_day(int(g[1]), int(g[2])))
      description == escape_str(g[3])
      amount == str_to_float(g[4])
      foreign3_match == exchange_rate_calculation_engine(getitem(n.iom, 1))
      transit2_match == transit_leg_with_id_engine(getitem(n.iom, 0))
  IN IF ~domestic_match.matched THEN Returned("False", iom, <<>>)
     ELSE IF n.stop THEN Raised("peeked_lines", iom)
     ELSE IF ~month_day_ok(int(g[1]), int(g[2]))
          THEN Raised("invalid_date", n.iom)
     ELSE IF ~date.ok THEN Raised(date.error, n.iom)
     ELSE IF ~amount.ok THEN Raised("ValueError", n.iom)
     ELSE IF foreign3_match.matched
          THEN foreign_branch(n.iom, date.value, description, amount.value,
                              foreign3_match)
     ELSE IF transit2_match.matched
          THEN transit_branch(n.iom, date.value, description, amount.value,
                              transit2_match)
     ELSE Returned("True", n.iom,
            <<domestic_transaction_record(date.value, description,
                                          amount.value)>>)

\* ------------------------------------------------------------------------
\* record_parser.  self is a record of state and meta_data_parsers.  A call
\* has a result: ret and error as for a parser, the state and the
\* meta_data_parsers after the call, the iom after the call, delivered (the
\* tuples passed to the user action, in order) and calls (one entry for
\* each sub-parser called, in order, with what that call did).

META_DATA_STATE == "META_DATA_STATE"
NON_TRANSACTION_STATE == "NON_TRANSACTION_STATE"
PRE_TRANSACTION_STATE == "PRE_TRANSACTION_STATE"
TRANSACTION_STATE == "TRANSACTION_STATE"

States == {META_DATA_STATE, NON_TRANSACTION_STATE, PRE_TRANSACTION_STATE,
           TRANSACTION_STATE}

\* record_parser.__init__
record_parser_init ==
  [state |-> META_DATA_STATE,
   meta_data_parsers |-> <<"period_meta_data_record_parser">>]

\* bind_action with the bug of calling the user action twice.
bind_action_twice(state, sub_parser, our_action, outcome) ==
  [iom |-> IF our_action /\ Len(outcome.values) > 0
           THEN [outcome.iom EXCEPT !.month_year_mapping =
                   add_month_year_mapping(@, outcome.values[1])]
           ELSE outcome.iom,
   delivered |-> [i \in 1..(2 * Len(outcome.values)) |->
                    [state |-> state, sub_parser |-> sub_parser,
                     value |-> outcome.values[(i + 1) \div 2]]]]

\* record_parser.bind_action applied to the values of a parser's outcome:
\* our_action (add_month_year_mapping for a meta-data parser), then the
\* user action with (self.state, sub_parser, value).
bind_action(state, sub_parser, our_action, outcome) ==
  [iom |-> IF our_action /\ Len(outcome.values) > 0
           THEN [outcome.iom EXCEPT !.month_year_mapping =
                   add_month_year_mapping(@, outcome.values[1])]
           ELSE outcome.iom,
   delivered |-> [i \in 1..Len(outcome.values) |->
                    [state |-> state, sub_parser |-> sub_parser,
                     value |-> outcome.values[i]]]]

\* What one call of a sub-parser did: the lines it consumed, the times the
\* user action ran, whether the month to year mapping changed.
Call(sub_parser, before, outcome, bound) ==
  [parser |-> sub_parser, ret |-> outcome.ret,
   lines |-> Len(before.input_sequence) - Len(bound.iom.input_sequence),
   actions |-> Len(bound.delivered),
   mapping_changed |->
     bound.iom.month_year_mapping # before.month_year_mapping]

Result(ret, error, state, meta_data_parsers, iom, delivered, calls) ==
  [ret |-> ret, error |-> error, state |-> state,
   meta_data_parsers |-> meta_data_parsers, iom |-> iom,
   delivered |-> delivered, calls |-> calls]

\* The end of record_parser.__call__, reached when nothing else matched:
\* the non-transaction record parser.
non_transaction_fall_through(self, iom, calls) ==
  LET sub_parser == "non_transaction_record_parser"
      outcome == non_transaction_record_parser(iom)
      bound == bind_action(self.state, sub_parser, FALSE, outcome)
  IN Result(IF Truthy(outcome.ret) THEN "True" ELSE "False", "none",
            self.state, self.meta_data_parsers, bound.iom, bound.delivered,
            Append(calls, Call(sub_parser, iom, outcome, bound)))

\* The branch of record_parser.__call__ with the bug of changing the state
\* before the action is called, so that a value is tagged with the state
\* its match leads to.
state_branch_tags_after(self, iom, sub_parser, outcome, our_action, meta_data_parsers, matched_state, failed_state) ==
  LET bound == bind_action(matched_state, sub_parser, our_action, outcome)
      calls == <<Call(sub_parser, iom, outcome, bound)>>
  IN IF outcome.ret = "raise"
     THEN Result("raise", outcome.error, self.state, self.meta_data_parsers,
                 outcome.iom, <<>>, calls)
     ELSE IF Truthy(outcome.ret)
     THEN Result("True", "none", matched_state, meta_data_parsers,
                 bound.iom, bound.delivered, calls)
     ELSE non_transaction_fall_through(
            [self EXCEPT !.state = failed_state], iom, calls)

\* The branch of record_parser.__call__ for one state: sub_parser is called;
\* when it matches the state becomes matched_state, when it fails the state
\* becomes failed_state and the call falls through.
state_branch(self, iom, sub_parser, outcome, our_action, meta_data_parsers, matched_state, failed_state) ==
  LET bound == bind_action(self.state, sub_parser, our_action, outcome)
      calls == <<Call(sub_parser, iom, outcome, bound)>>
  IN IF outcome.ret = "raise"
     THEN Result("raise", outcome.error, self.state, self.meta_data_parsers,
                 outcome.iom, <<>>, calls)
     ELSE IF Truthy(outcome.ret)
     THEN Result("True", "none", matched_state, meta_data_parsers,
                 bound.iom, bound.delivered, calls)
     ELSE non_transaction_fall_through(
            [self EXCEPT !.state = failed_state], iom, calls)

\* record_parser.__call__ with the bug of entering Transaction state on a
\* header match.
record_parser_skips_pre_transaction(self, iom) ==
  CASE self.state = META_DATA_STATE ->
         IF Len(self.meta_data_parsers) = 0
         THEN Result("raise", "no_meta_data_parser", self.state,
                     self.meta_data_parsers, iom, <<>>, <<>>)
         ELSE LET n == Len(self.meta_data_parsers)
                  popped == SubSeq(self.meta_data_parsers, 1, n - 1)
              IN state_branch(self, iom, self.meta_data_parsers[n],
                   period_meta_data_record_parser(iom), TRUE, popped,
                   IF Len(popped) = 0 THEN NON_TRANSACTION_STATE
                   ELSE META_DATA_STATE,
                   META_DATA_STATE)
    [] self.state = NON_TRANSACTION_STATE ->
         state_branch(self, iom, "transaction_header_record_parser",
           transaction_header_record_parser(iom), FALSE,
           self.meta_data_parsers, TRANSACTION_STATE,
           NON_TRANSACTION_STATE)
    [] self.state = PRE_TRANSACTION_STATE ->
         state_branch(self, iom, "transaction_record_parser",
           transaction_record_parser(iom), FALSE,
           self.meta_data_parsers, TRANSACTION_STATE,
           PRE_TRANSACTION_STATE)
    [] self.state = TRANSACTION_STATE ->
         state_branch(self, iom, "transaction_record_parser",
           transaction_record_parser(iom), FALSE,
           self.meta_data_parsers, TRANSACTION_STATE,
           NON_TRANSACTION_STATE)
    [] OTHER ->
         Result("raise", "invalid_state", self.state,
                self.meta_data_parsers, iom, <<>>, <<>>)

\* record_parser.__call__ with the bug of trying the period parser again in
\* NonTransaction state.
record_parser_rereads_period(self, iom) ==
  CASE self.state = META_DATA_STATE ->
         IF Len(self.meta_data_parsers) = 0
         THEN Result("raise", "no_meta_data_parser", self.state,
                     self.meta_data_parsers, iom, <<>>, <<>>)
         ELSE LET n == Len(self.meta_data_parsers)
                  popped == SubSeq(self.meta_data_parsers, 1, n - 1)
              IN state_branch(self, iom, self.meta_data_parsers[n],
                   period_meta_data_record_parser(iom), TRUE, popped,
                   IF Len(popped) = 0 THEN NON_TRANSACTION_STATE
                   ELSE META_DATA_STATE,
                   META_DATA_STATE)
    [] self.state = NON_TRANSACTION_STATE ->
         IF Truthy(period_meta_data_record_parser(iom).ret)
         THEN state_branch(self, iom, "period_meta_data_record_parser",
                period_meta_data_record_parser(iom), TRUE,
                self.meta_data_parsers, NON_TRANSACTION_STATE,
                NON_TRANSACTION_STATE)
         ELSE state_branch(self, iom, "transaction_header_record_parser",
                transaction_header_record_parser(iom), FALSE,
                self.meta_data_parsers, PRE_TRANSACTION_STATE,
                NON_TRANSACTION_STATE)
    [] self.state = PRE_TRANSACTION_STATE ->
         state_branch(self, iom, "transaction_record_parser",
           transaction_record_parser(iom), FALSE,
           self.meta_data_parsers, TRANSACTION_STATE,
           PRE_TRANSACTION_STATE)
    [] self.state = TRANSACTION_STATE ->
         state_branch(self, iom, "transaction_record_parser",
           transaction_record_parser(iom), FALSE,
           self.meta_data_parsers, TRANSACTION_STATE,
           NON_TRANSACTION_STATE)
    [] OTHER ->
         Result("raise", "invalid_state", self.state,
                self.meta_data_parsers, iom, <<>>, <<>>)

\* record_parser.__call__ with a PreTransaction state that a line of noise
\* ends, as it ends the Transaction state.
record_parser_pre_leaves_on_noise(self, iom) ==
  CASE self.state = META_DATA_STATE ->
         IF Len(self.meta_data_parsers) = 0
         THEN Result("raise", "no_meta_data_parser", self.state,
                     self.meta_data_parsers, iom, <<>>, <<>>)
         ELSE LET n == Len(self.meta_data_parsers)
                  popped == SubSeq(self.meta_data_parsers, 1, n - 1)
              IN state_branch(self, iom, self.meta_data_parsers[n],
                   period_meta_data_record_parser(iom), TRUE, popped,
                   IF Len(popped) = 0 THEN NON_TRANSACTION_STATE
                   ELSE META_DATA_STATE,
                   META_DATA_STATE)
    [] self.state = NON_TRANSACTION_STATE ->
         state_branch(self, iom, "transaction_header_record_parser",
           transaction_header_record_parser(iom), FALSE,
           self.meta_data_parsers, PRE_TRANSACTION_STATE,
           NON_TRANSACTION_STATE)
    [] self.state = PRE_TRANSACTION_STATE ->
         state_branch(self, iom, "transaction_record_parser",
           transaction_record_parser(iom), FALSE,
           self.meta_data_parsers, TRANSACTION_STATE,
           NON_TRANSACTION_STATE)
    [] self.state = TRANSACTION_STATE ->
         state_branch(self, iom, "transaction_record_parser",
           transaction_record_parser(iom), FALSE,
           self.meta_data_parsers, TRANSACTION_STATE,
           NON_TRANSACTION_STATE)
    [] OTHER ->
         Result("raise", "invalid_state", self.state,
                self.meta_data_parsers, iom, <<>>, <<>>)

\* record_parser.__call__ with the bug of trying the transaction record
\* parser in NonTransaction state when no header matched.
record_parser_records_without_header(self, iom) ==
  CASE self.state = META_DATA_STATE ->
         IF Len(self.meta_data_parsers) = 0
         THEN Result("raise", "no_meta_data_parser", self.state,
                     self.meta_data_parsers, iom, <<>>, <<>>)
         ELSE LET n == Len(self.meta_data_parsers)
                  popped == SubSeq(self.meta_data_parsers, 1, n - 1)
              IN state_branch(self, iom, self.meta_data_parsers[n],
                   period_meta_data_record_parser(iom), TRUE, popped,
                   IF Len(popped) = 0 THEN NON_TRANSACTION_STATE
                   ELSE META_DATA_STATE,
                   META_DATA_STATE)
    [] self.state = NON_TRANSACTION_STATE ->
         IF Truthy(transaction_header_record_parser(iom).ret)
         THEN state_branch(self, iom, "transaction_header_record_parser",
                transaction_header_record_parser(iom), FALSE,
                self.meta_data_parsers, PRE_TRANSACTION_STATE,
                NON_TRANSACTION_STATE)
         ELSE state_branch(self, iom, "transaction_record_parser",
                transaction_record_parser(iom), FALSE,
                self.meta_data_parsers, TRANSACTION_STATE,
                NON_TRANSACTION_STATE)
    [] self.state = PRE_TRANSACTION_STATE ->
         state_branch(self, iom, "transaction_record_parser",
           transaction_record_parser(iom), FALSE,
           self.meta_data_parsers, TRANSACTION_STATE,
           PRE_TRANSACTION_STATE)
    [] self.state = TRANSACTION_STATE ->
         state_branch(self, iom, "transaction_record_parser",
           transaction_record_parser(iom), FALSE,
           self.meta_data_parsers, TRANSACTION_STATE,
           NON_TRANSACTION_STATE)
    [] OTHER ->
         Result("raise", "invalid_state", self.state,
                self.meta_data_parsers, iom, <<>>, <<>>)

\* record_parser.__call__ with the bug of staying in MetaData state when the
\* last meta-data parser has matched and was popped.
record_parser_stays_in_meta_data(self, iom) ==
  CASE self.state = META_DATA_STATE ->
         IF Len(self.meta_data_parsers) = 0
         THEN Result("raise", "no_meta_data_parser", self.state,
                     self.meta_data_parsers, iom, <<>>, <<>>)
         ELSE LET n == Len(self.meta_data_parsers)
                  popped == SubSeq(self.meta_data_parsers, 1, n - 1)
              IN state_branch(self, iom, self.meta_data_parsers[n],
                   period_meta_data_record_parser(iom), TRUE, popped,
                   META_DATA_STATE,
                   META_DATA_STATE)
    [] self.state = NON_TRANSACTION_STATE ->
         state_branch(self, iom, "transaction_header_record_parser",
           transaction_header_record_parser(iom), FALSE,
           self.meta_data_parsers, PRE_TRANSACTION_STATE,
           NON_TRANSACTION_STATE)
    [] self.state = PRE_TRANSACTION_STATE ->
         state_branch(self, iom, "transaction_record_parser",
           transaction_record_parser(iom), FALSE,
           self.meta_data_parsers, TRANSACTION_STATE,
           PRE_TRANSACTION_STATE)
    [] self.state = TRANSACTION_STATE ->
         state_branch(self, iom, "transaction_record_parser",
           transaction_record_parser(iom), FALSE,
           self.meta_data_parsers, TRANSACTION_STATE,
           NON_TRANSACTION_STATE)
    [] OTHER ->
         Result("raise", "invalid_state", self.state,
                self.meta_data_parsers, iom, <<>>, <<>>)

\* record_parser.__call__
record_parser(self, iom) ==
  CASE self.state = META_DATA_STATE ->
         IF Len(self.meta_data_parsers) = 0
         THEN Result("raise", "no_meta_data_parser", self.state,
                     self.meta_data_parsers, iom, <<>>, <<>>)
         ELSE LET n == Len(self.meta_data_parsers)
                  popped == SubSeq(self.meta_data_parsers, 1, n - 1)
              IN state_branch(self, iom, self.meta_data_parsers[n],
                   period_meta_data_record_parser(iom), TRUE, popped,
                   IF Len(popped) = 0 THEN NON_TRANSACTION_STATE
                   ELSE META_DATA_STATE,
                   META_DATA_STATE)
    [] self.state = NON_TRANSACTION_STATE ->
         state_branch(self, iom, "transaction_header_record_parser",
           transaction_header_record_parser(iom), FALSE,
           self.meta_data_parsers, PRE_TRANSACTION_STATE,
           NON_TRANSACTION_STATE)
    [] self.state = PRE_TRANSACTION_STATE ->
         state_branch(self, iom, "transaction_record_parser",
           transaction_record_parser(iom), FALSE,
           self.meta_data_parsers, TRANSACTION_STATE,
           PRE_TRANSACTION_STATE)
    [] self.state = TRANSACTION_STATE ->
         state_branch(self, iom, "transaction_record_parser",
           transaction_record_parser(iom), FALSE,
           self.meta_data_parsers, TRANSACTION_STATE,
           NON_TRANSACTION_STATE)
    [] OTHER ->
         Result("raise", "invalid_state", self.state,
                self.meta_data_parsers, iom, <<>>, <<>>)

\* ------------------------------------------------------------------------
\* The inputs of the model.

\* A statement period of two months.
PeriodLine == <<"O", "p", "e", "n", "i", "n", "g", "/", "C", "l", "o", "s",
                "i", "n", "g", " ", "D", "a", "t", "e", " ", "0", "4", "/",
                "0", "1", "/", "1", "6", " ", "-", " ", "0", "5", "/", "3",
                "0", "/", "1", "6">>

\* A transaction lead line.
DomesticLine == <<"0", "4", "/", "0", "5", " ", "A", " ", "2", ".", "5">>

\* An exchange date and currency line (no amount at its end).
ExchangeDateLine == <<"0", "4", "/", "0", "6", " ", "E", "U", "R">>

\* An exchange rate calculation line.
ExchangeRateLine == <<"9", ".", "0", " ", "X", " ", "1", ".", "1", " ", "(", "E",
                      "X", "C", "H", "G", " ", "R", "A", "T", "E", ")">>

\* A transit leg with id line.
TransitIdLine == <<"1", "2", "3", "4", "5", "6", " ", "1", " ", "A", " ", "J",
                   "F", "K", " ", "L", "G", "A">>

\* A transit leg line.
TransitLegLine == <<"2", " ", "B", " ", "L", "G", "A", " ", "J", "F", "K">>

\* A line of no grammar, with a control character.
NoiseLine == <<"a", "\t", "b">>

\* A lead line whose month is out of range.
BadDateLine == <<"1", "3", "/", "0", "5", " ", "C", " ", "1", ".", "0">>

\* A lead line whose month is outside the period.
UnmappedLine == <<"0", "7", "/", "0", "5", " ", "D", " ", "1", ".", "0">>

\* A lead line whose amount float() rejects.
BadAmountLine == <<"0", "4", "/", "0", "5", " ", "E", " ", "1", "2", "X">>

\* The empty line.
EmptyLine == <<>>

Vocabulary == {PeriodLine, DateOf, TransactionMerchantName, DomesticLine,
               ExchangeDateLine, ExchangeRateLine, TransitIdLine,
               TransitLegLine, NoiseLine, EmptyLine, BadDateLine,
               UnmappedLine, BadAmountLine}

\* The sequences of at most n elements of S.
SeqsUpTo(S, n) == UNION {[1..k -> S] : k \in 0..n}

\* Any lines, one at the least, since split("\n") gives one line even for
\* the empty text; statements that begin with the period and a header; and
\* statements of the period and two headers, each followed by a block.
Inputs ==
  (SeqsUpTo(Vocabulary, MaxLines) \ {<<>>})
  \cup {<<PeriodLine, DateOf, TransactionMerchantName>> \o body :
          body \in SeqsUpTo(Vocabulary, MaxBody)}
  \cup {<<PeriodLine, DateOf, TransactionMerchantName>> \o b[1]
          \o <<DateOf, TransactionMerchantName>> \o b[2] :
          b \in SeqsUpTo(Vocabulary, MaxBlock)
                \X SeqsUpTo(Vocabulary, MaxBlock)}

\* ------------------------------------------------------------------------
\* The program: p = record_parser(); while p(iom, action): pass

VARIABLES
  input,               \* the lines the run was given
  input_sequence,      \* iom.input_sequence
  month_year_mapping,  \* iom.month_year_mapping
  consumed,            \* the lines next() has returned, in order
  state,               \* p.state
  meta_data_parsers,   \* p.meta_data_parsers
  delivered,           \* the tuples the user action has received, in order
  pc,                  \* "running", "exhausted" (p returned False), "aborted"
  error,               \* the exception that ended the run, or "none"
  calls                \* the sub-parser calls of the last call of p

vars == <<input, input_sequence, month_year_mapping, consumed, state,
          meta_data_parsers, delivered, pc, error, calls>>

iom_now == [input_sequence |-> input_sequence,
            month_year_mapping |-> month_year_mapping,
            consumed |-> consumed]

self_now == [state |-> state, meta_data_parsers |-> meta_data_parsers]

Init ==
  /\ input \in Inputs
  /\ input_sequence = io_manager(input).input_sequence
  /\ month_year_mapping = io_manager(input).month_year_mapping
  /\ consumed = io_manager(input).consumed
  /\ state = record_parser_init.state
  /\ meta_data_parsers = record_parser_init.meta_data_parsers
  /\ delivered = <<>>
  /\ pc = "running"
  /\ error = "none"
  /\ calls = <<>>

\* One turn of the while loop: a call of p, whose result ends the loop when
\* it is False or an exception.
CallRecordParser ==
  \E r \in {record_parser(self_now, iom_now)} :
     /\ input_sequence' = r.iom.input_sequence
     /\ month_year_mapping' = r.iom.month_year_mapping
     /\ consumed' = r.iom.consumed
     /\ state' = r.state
     /\ meta_data_parsers' = r.meta_data_parsers
     /\ delivered' = delivered \o r.delivered
     /\ pc' = CASE r.ret = "True" -> "running"
                [] r.ret = "False" -> "exhausted"
                [] OTHER -> "aborted"
     /\ error' = r.error
     /\ calls' = r.calls
     /\ UNCHANGED input

MetaDataStep ==
  pc = "running" /\ state = META_DATA_STATE /\ CallRecordParser

NonTransactionStep ==
  pc = "running" /\ state = NON_TRANSACTION_STATE /\ CallRecordParser

PreTransactionStep ==
  pc = "running" /\ state = PRE_TRANSACTION_STATE /\ CallRecordParser

TransactionStep ==
  pc = "running" /\ state = TRANSACTION_STATE /\ CallRecordParser

Next ==
  \/ MetaDataStep
  \/ NonTransactionStep
  \/ PreTransactionStep
  \/ TransactionStep

Spec == Init /\ [][Next]_vars

\* ------------------------------------------------------------------------
\* The user actions of the main program.  The output is the sequence of the
\* things printed, without the header row.

\* print_any_record, the action of the debug mode.
print_any_record(output, tup) == Append(output, tup)

\* print_transaction_record, the action of the regular mode.
print_transaction_record(output, tup) ==
  IF tup.sub_parser = "transaction_record_parser"
  THEN Append(output, tup.value)
  ELSE output

\* What the regular mode has printed once the first n of the tuples were
\* passed to its action.
RECURSIVE regular_output(_, _)
regular_output(tuples, n) ==
  IF n = 0 THEN <<>>
  ELSE print_transaction_record(regular_output(tuples, n - 1), tuples[n])

\* ------------------------------------------------------------------------
\* Statements for the dates: a period whose opening and closing are drawn
\* from a few months and years, a header, and one record whose dates are
\* drawn from a few months and days.

DigitChar == <<"0", "1", "2", "3", "4", "5", "6", "7", "8", "9">>

\* A number below 100 as the two digits a statement prints.
TwoDigits(n) == <<DigitChar[(n \div 10) + 1], DigitChar[(n % 10) + 1]>>

\* The months and years of the opening and closing dates.
AnchorMonths == {4, 5, 12}
AnchorYears == {16, 17}

\* The months and days of the dates of a record; month 7 is in no period.
RecordMonths == {4, 5, 7, 12}
RecordDays == {1, 31}

PeriodLineOf(om, oy, cm, cy) ==
  OpeningClosingDate \o TwoDigits(om) \o <<"/", "0", "1", "/">>
    \o TwoDigits(oy) \o <<" ", "-", " ">> \o TwoDigits(cm)
    \o <<"/", "2", "8", "/">> \o TwoDigits(cy)

LeadLineOf(m, d) ==
  TwoDigits(m) \o <<"/">> \o TwoDigits(d) \o <<" ", "A", " ", "2", ".", "5">>

ExchangeDateLineOf(m, d) ==
  TwoDigits(m) \o <<"/">> \o TwoDigits(d) \o <<" ", "E", "U", "R">>

PeriodLines ==
  {PeriodLineOf(om, oy, cm, cy) :
     om \in AnchorMonths, oy \in AnchorYears,
     cm \in AnchorMonths, cy \in AnchorYears}

\* A Domestic record, or the three lines of a Foreign record.
DatedRecords ==
  {<<LeadLineOf(m, d)>> : m \in RecordMonths, d \in RecordDays}
  \cup {<<LeadLineOf(m, d), ExchangeDateLineOf(xm, xd), ExchangeRateLine>> :
          m \in RecordMonths, d \in RecordDays,
          xm \in RecordMonths, xd \in RecordDays}

DateInputs ==
  {<<p, DateOf, TransactionMerchantName>> \o rec :
     p \in PeriodLines, rec \in DatedRecords}

InitDates ==
  /\ input \in DateInputs
  /\ input_sequence = io_manager(input).input_sequence
  /\ month_year_mapping = io_manager(input).month_year_mapping
  /\ consumed = io_manager(input).consumed
  /\ state = record_parser_init.state
  /\ meta_data_parsers = record_parser_init.meta_data_parsers
  /\ delivered = <<>>
  /\ pc = "running"
  /\ error = "none"
  /\ calls = <<>>

SpecDates == InitDates /\ [][Next]_vars

\* ------------------------------------------------------------------------
\* Statements for the ranges of the dates: a period, a header and one
\* record, with the months and days of all the dates drawn from values in
\* and out of range.

RangeMonths == {0, 4, 13}
RangeDays == {0, 5, 32}

PeriodLineWith(om, od, oy, cm, cd, cy) ==
  OpeningClosingDate \o TwoDigits(om) \o <<"/">> \o TwoDigits(od) \o <<"/">>
    \o TwoDigits(oy) \o <<" ", "-", " ">> \o TwoDigits(cm) \o <<"/">>
    \o TwoDigits(cd) \o <<"/">> \o TwoDigits(cy)

RangePeriodLines ==
  {PeriodLineWith(om, od, 16, cm, cd, 16) :
     om \in RangeMonths, od \in RangeDays,
     cm \in RangeMonths, cd \in RangeDays}

RangeRecords ==
  {<<LeadLineOf(m, d)>> : m \in RangeMonths, d \in RangeDays}
  \cup {<<LeadLineOf(m, d), ExchangeDateLineOf(xm, xd), ExchangeRateLine>> :
          m \in RangeMonths, d \in RangeDays,
          xm \in RangeMonths, xd \in RangeDays}

RangeInputs ==
  {<<p, DateOf, TransactionMerchantName>> \o rec :
     p \in RangePeriodLines, rec \in RangeRecords}

InitRanges ==
  /\ input \in RangeInputs
  /\ input_sequence = io_manager(input).input_sequence
  /\ month_year_mapping = io_manager(input).month_year_mapping
  /\ consumed = io_manager(input).consumed
  /\ state = record_parser_init.state
  /\ meta_data_parsers = record_parser_init.meta_data_parsers
  /\ delivered = <<>>
  /\ pc = "running"
  /\ error = "none"
  /\ calls = <<>>

SpecRanges == InitRanges /\ [][Next]_vars

\* ------------------------------------------------------------------------
\* Statements for the transit legs: a period, a header, a lead line, a
\* transit leg with id line and then up to MaxLegs lines, each a transit
\* leg line or not.

MaxLegs == 3

\* A transit leg line whose index digit is lower than that of
\* TransitLegLine.
EarlierLegLine == <<"1", " ", "C", " ", "J", "F", "K", " ", "S", "F", "O">>

\* A line that is a transit leg line but for a lower case letter.
NearLegLine == <<"3", " ", "d", " ", "S", "F", "O", " ", "J", "F", "K">>

LegVocabulary == {TransitLegLine, EarlierLegLine, NearLegLine, DomesticLine}

TransitInputs ==
  {<<PeriodLine, DateOf, TransactionMerchantName, DomesticLine,
     TransitIdLine>> \o tail :
     tail \in SeqsUpTo(LegVocabulary, MaxLegs)}

InitTransit ==
  /\ input \in TransitInputs
  /\ input_sequence = io_manager(input).input_sequence
  /\ month_year_mapping = io_manager(input).month_year_mapping
  /\ consumed = io_manager(input).consumed
  /\ state = record_parser_init.state
  /\ meta_data_parsers = record_parser_init.meta_data_parsers
  /\ delivered = <<>>
  /\ pc = "running"
  /\ error = "none"
  /\ calls = <<>>

SpecTransit == InitTransit /\ [][Next]_vars

\* ------------------------------------------------------------------------
\* The runs under the scheduling of the main loop.

\* A call of p that changes something can be made: the loop is running and
\* the call would leave some variable with another value.  This is
\* ENABLED <<Next>>_vars, computed from the result of the call.
CanStep ==
  /\ pc = "running"
  /\ \E r \in {record_parser(self_now, iom_now)} :
       \/ r.iom.input_sequence # input_sequence
       \/ r.iom.month_year_mapping # month_year_mapping
       \/ r.iom.consumed # consumed
       \/ r.state # state
       \/ r.meta_data_parsers # meta_data_parsers
       \/ r.delivered # <<>>
       \/ r.ret # "True"
       \/ r.error # error
       \/ r.calls # calls

\* The main loop calls p again as soon as a call has returned True, so a
\* call that can be made is made: weak fairness of Next, which is
\* WF_vars(Next) with its enabling condition written as CanStep.
Fairness == []<>(~CanStep) \/ []<><<Next>>_vars

\* The inputs of the runs whose termination is checked: statements of the
\* period, a header and a body; the statements with transit legs; lines
\* without a period at their start, one line at the least.
FairInputs ==
  {<<PeriodLine, DateOf, TransactionMerchantName>> \o body :
     body \in SeqsUpTo(Vocabulary, MaxBody)}
  \cup TransitInputs
  \cup (SeqsUpTo(Vocabulary, MaxLines - 1) \ {<<>>})

InitFair ==
  /\ input \in FairInputs
  /\ input_sequence = io_manager(input).input_sequence
  /\ month_year_mapping = io_manager(input).month_year_mapping
  /\ consumed = io_manager(input).consumed
  /\ state = record_parser_init.state
  /\ meta_data_parsers = record_parser_init.meta_data_parsers
  /\ delivered = <<>>
  /\ pc = "running"
  /\ error = "none"
  /\ calls = <<>>

SpecFair == InitFair /\ [][Next]_vars /\ Fairness

\* ------------------------------------------------------------------------
\* Statements whose one lead line is followed by continuation lines of both
\* kinds: the lines of a foreign record and the lines of a transit record,
\* in any order and number.

MaxTail == 4

ContinuationVocabulary == {ExchangeDateLine, ExchangeRateLine, TransitIdLine,
                           TransitLegLine}

ContinuationInputs ==
  {<<PeriodLine, DateOf, TransactionMerchantName, DomesticLine>> \o tail :
     tail \in SeqsUpTo(ContinuationVocabulary, MaxTail)}

InitContinuation ==
  /\ input \in ContinuationInputs
  /\ input_sequence = io_manager(input).input_sequence
  /\ month_year_mapping = io_manager(input).month_year_mapping
  /\ consumed = io_manager(input).consumed
  /\ state = record_parser_init.state
  /\ meta_data_parsers = record_parser_init.meta_data_parsers
  /\ delivered = <<>>
  /\ pc = "running"
  /\ error = "none"
  /\ calls = <<>>

SpecContinuation == InitContinuation /\ [][Next]_vars

\* ------------------------------------------------------------------------
\* Statements whose lead lines end in several tokens that look like
\* amounts, or in white space.

MaxLeads == 2

\* A lead line with two amounts at its end.
TwoAmountsLine == <<"0", "4", "/", "0", "5", " ", "F", "O", "O", " ", "5",
                    ".", "0", "0", " ", "2", ".", "0", "0">>

\* A lead line with a description of two words, the second a number
\* without a decimal point.
NumberInDescriptionLine == <<"0", "4", "/", "0", "5", " ", "F", "O", "O",
                             " ", "1", " ", "2", ".", "0", "0">>

\* A line that ends in two numbers without a decimal point.
TwoNumbersLine == <<"0", "4", "/", "0", "5", " ", "F", "O", "O", " ", "1",
                    " ", "2">>

\* A line that ends in a number without a decimal point and a space.
TrailingSpaceLine == <<"0", "4", "/", "0", "5", " ", "F", "O", "O", " ", "1",
                       "2", " ">>

\* A line that ends in an amount and a number without a decimal point.
AmountThenNumberLine == <<"0", "4", "/", "0", "5", " ", "F", "O", "O", " ",
                          "5", ".", "0", "0", " ", "2">>

AmountVocabulary == {DomesticLine, TwoAmountsLine, NumberInDescriptionLine,
                     TwoNumbersLine, TrailingSpaceLine,
                     AmountThenNumberLine}

AmountInputs ==
  {<<PeriodLine, DateOf, TransactionMerchantName>> \o body :
     body \in SeqsUpTo(AmountVocabulary, MaxLeads)}

InitAmounts ==
  /\ input \in AmountInputs
  /\ input_sequence = io_manager(input).input_sequence
  /\ month_year_mapping = io_manager(input).month_year_mapping
  /\ consumed = io_manager(input).consumed
  /\ state = record_parser_init.state
  /\ meta_data_parsers = record_parser_init.meta_data_parsers
  /\ delivered = <<>>
  /\ pc = "running"
  /\ error = "none"
  /\ calls = <<>>

SpecAmounts == InitAmounts /\ [][Next]_vars

\* ------------------------------------------------------------------------
\* Rendering: the __str__ of the values and the rows of the output.

\* A string of n zeros.
Zeros(n) == [i \in 1..n |-> "0"]

\* A string of digits without its leading zeros, one digit at the least.
RECURSIVE strip_zeros(_)
strip_zeros(s) ==
  IF Len(s) > 1 /\ Head(s) = "0" THEN strip_zeros(Tail(s)) ELSE s

\* The decimal digits of a natural number.
RECURSIVE digits_of(_)
digits_of(n) ==
  IF n < 10 THEN <<DigitChar[n + 1]>>
  ELSE Append(digits_of(n \div 10), DigitChar[(n % 10) + 1])

\* '{0:0>6d}'.format(n)
format_06d(n) ==
  LET d == digits_of(n)
  IN IF Len(d) >= 6 THEN d ELSE Zeros(6 - Len(d)) \o d

\* The texts of numbers that format_fixed renders: a sign, digits and at
\* most one point, with no more than digits places after the point, and
\* with no more than 15 digits printed, the digits before the point and the
\* digits places of the format together, so that the float gives back the
\* number as it is written and no rounding takes part.
IsPlainDecimal(value, digits) ==
  LET u == IF Len(value) > 0 /\ value[1] \in {"+", "-"}
           THEN Tail(value) ELSE value
      dots == Positions(u, {"."})
      dot == IF dots = {} THEN Len(u) + 1 ELSE CHOOSE i \in dots : TRUE
      whole == IF dot = 1 THEN <<"0">> ELSE strip_zeros(SubSeq(u, 1, dot - 1))
  IN /\ IsMantissa(u)
     /\ Len(u) - dot <= digits
     /\ Len(whole) + digits <= 15

\* '{0:.2f}'.format(x) and '{0:f}'.format(x) for the float x that
\* str_to_float made of the text value, with digits places (2 and 6).
format_fixed(value, digits) ==
  LET neg == Len(value) > 0 /\ value[1] = "-"
      u == IF Len(value) > 0 /\ value[1] \in {"+", "-"}
           THEN Tail(value) ELSE value
      dots == Positions(u, {"."})
      dot == IF dots = {} THEN Len(u) + 1 ELSE CHOOSE i \in dots : TRUE
      whole == IF dot = 1 THEN <<"0">> ELSE strip_zeros(SubSeq(u, 1, dot - 1))
      places == From(u, dot + 1)
  IN CASE IsPlainDecimal(value, digits) ->
       (IF neg THEN <<"-">> ELSE <<>>) \o whole \o <<".">> \o places
         \o Zeros(digits - Len(places))

\* month_day_year.__str__
month_day_year_str(date) ==
  TwoDigits(date.month) \o <<"/">> \o TwoDigits(date.day) \o <<"/">>
    \o TwoDigits(date.year)

\* transit_leg.__str__
transit_leg_str(leg) ==
  leg.code \o <<"(">> \o leg.departure \o <<"-", ">">> \o leg.arrival
    \o <<")">>

\* reduce(lambda x, y: "{0} {1}".format(str(x), str(y)), "", transit_legs)
\* on the first n legs.
RECURSIVE transit_legs_str(_, _)
transit_legs_str(transit_legs, n) ==
  IF n = 0 THEN <<>>
  ELSE transit_legs_str(transit_legs, n - 1) \o <<" ">>
         \o transit_leg_str(transit_legs[n])

\* domestic_transaction_record.__str__
domestic_transaction_record_str(value) ==
  <<"D", "O", "M", "E", "S", "T", "I", "C", "\t">>
    \o month_day_year_str(value.date) \o <<"\t">>
    \o value.description \o <<"\t">>
    \o format_fixed(value.amount, 2)

\* foreign_transaction_record.__str__
foreign_transaction_record_str(value) ==
  <<"F", "O", "R", "E", "I", "G", "N", "\t">>
    \o month_day_year_str(value.date) \o <<"\t">>
    \o value.description \o <<"\t">>
    \o format_fixed(value.amount, 2) \o <<"\t">>
    \o month_day_year_str(value.exchange_date) \o <<"\t">>
    \o value.exchange_currency \o <<"\t">>
    \o format_fixed(value.exchange_amount, 2) \o <<"\t">>
    \o format_fixed(value.exchange_rate, 6)

\* transit_transaction_record.__str__
transit_transaction_record_str(value) ==
  <<"T", "R", "A", "N", "S", "I", "T", "\t">>
    \o month_day_year_str(value.date) \o <<"\t">>
    \o value.description \o <<"\t">>
    \o format_fixed(value.amount, 2) \o <<"\t", "\t", "\t", "\t", "\t">>
    \o format_06d(value.transit_id) \o <<"\t">>
    \o transit_legs_str(value.transit_legs, Len(value.transit_legs))

\* str() of a transaction record.
record_str(value) ==
  CASE value.type = "DOMESTIC" -> domestic_transaction_record_str(value)
    [] value.type = "FOREIGN" -> foreign_transaction_record_str(value)
    [] value.type = "TRANSIT" -> transit_transaction_record_str(value)

\* The header row of the output.
header_row ==
  <<"T", "r", "a", "n", "s", "a", "c", "t", "i", "o", "n", " ", "T",
    "y", "p", "e", "\t", "T", "r", "a", "n", "s", "a", "c", "t", "i",
    "o", "n", " ", "D", "a", "t", "e", "\t", "T", "r", "a", "n", "s",
    "a", "c", "t", "i", "o", "n", " ", "D", "e", "s", "c", "r", "i",
    "p", "t", "i", "o", "n", "\t", "A", "m", "o", "u", "n", "t", " ",
    "[", "D", "o", "m", "e", "s", "t", "i", "c", " ", "C", "u", "r",
    "r", "e", "n", "c", "y", "]", "\t", "C", "u", "r", "r", "e", "n",
    "c", "y", " ", "E", "x", "c", "h", "a", "n", "g", "e", " ", "D",
    "a", "t", "e", "\t", "F", "o", "r", "e", "i", "g", "n", " ", "C",
    "u", "r", "r", "e", "n", "c", "y", "\t", "A", "m", "o", "u", "n",
    "t", " ", "[", "F", "o", "r", "e", "i", "g", "n", " ", "C", "u",
    "r", "r", "e", "n", "c", "y", "]", "\t", "C", "u", "r", "r", "e",
    "n", "c", "y", " ", "E", "x", "c", "h", "a", "n", "g", "e", " ",
    "R", "a", "t", "e", " ", "[", "F", "o", "r", "e", "i", "g", "n",
    " ", "C", "u", "r", "r", "e", "n", "c", "y", "/", "D", "o", "m",
    "e", "s", "t", "i", "c", " ", "C", "u", "r", "r", "e", "n", "c",
    "y", "]", "\t", "T", "r", "a", "n", "s", "i", "t", " ", "I", "D",
    "\t", "T", "r", "a", "n", "s", "i", "t", " ", "L", "e", "g", "s">>

\* The rows the regular mode has printed for the records once the first n
\* of the tuples were passed to its action.
regular_rows(tuples, n) ==
  [i \in 1..Len(regular_output(tuples, n)) |->
     record_str(regular_output(tuples, n)[i])]

\* ------------------------------------------------------------------------
\* Statements for the escaping: a period, a header and then a line of
\* text, or a lead line with the text as its description, or the lines of
\* a Foreign record with the text as its currency.  The text is UTF-8 of
\* up to MaxText characters: control characters, their neighbours, and
\* characters of two bytes, the second byte in or out of the class.

MaxText == 2

\* ord() of the bytes next to the ranges of the class, and of the
\* backslash and x.
printable_ord == (" " :> 32) @@ ("~" :> 126) @@ ("<NBSP>" :> 160)
                 @@ ("\\" :> 92) @@ ("x" :> 120)

\* ord() of the first bytes of the characters of two bytes: 0xC2 begins the
\* characters U+0080 to U+00BF and 0xC3 the characters U+00C0 to U+00FF.
lead_ord == ("<C2>" :> 194) @@ ("<C3>" :> 195)

\* The characters of a text, each as its bytes in UTF-8: the characters of
\* ASCII in the tables are one byte; U+0080, U+0085, U+009F (controls) and
\* U+00A0 are 0xC2 and the byte of their code; U+00C5, U+00C9 and U+00E0
\* (letters) are 0xC3 and the bytes 0x85, 0x89 and 0xA0.
TextChars ==
  {<<c>> : c \in {b \in DOMAIN control_ord \cup DOMAIN printable_ord :
                    (control_ord @@ printable_ord)[b] < 128}}
  \cup {<<"<C2>", c>> : c \in {"<PAD>", "<NEL>", "<APC>", "<NBSP>"}}
  \cup {<<"<C3>", c>> : c \in {"<NEL>", "<HTJ>", "<NBSP>"}}

\* "".join(characters)
RECURSIVE Joined(_)
Joined(characters) ==
  IF characters = <<>> THEN <<>>
  ELSE Head(characters) \o Joined(Tail(characters))

Texts == {Joined(t) : t \in SeqsUpTo(TextChars, MaxText) \ {<<>>}}

LeadLineAbout(description) ==
  <<"0", "4", "/", "0", "5", " ">> \o description \o <<" ", "2", ".", "5">>

ExchangeDateLineIn(currency) ==
  <<"0", "4", "/", "0", "6", " ">> \o currency

EscapeInputs ==
  {<<PeriodLine, DateOf, TransactionMerchantName, t>> : t \in Texts}
  \cup {<<PeriodLine, DateOf, TransactionMerchantName, LeadLineAbout(t)>> :
          t \in Texts}
  \cup {<<PeriodLine, DateOf, TransactionMerchantName, DomesticLine,
          ExchangeDateLineIn(t), ExchangeRateLine>> : t \in Texts}

InitEscape ==
  /\ input \in EscapeInputs
  /\ input_sequence = io_manager(input).input_sequence
  /\ month_year_mapping = io_manager(input).month_year_mapping
  /\ consumed = io_manager(input).consumed
  /\ state = record_parser_init.state
  /\ meta_data_parsers = record_parser_init.meta_data_parsers
  /\ delivered = <<>>
  /\ pc = "running"
  /\ error = "none"
  /\ calls = <<>>

SpecEscape == InitEscape /\ [][Next]_vars

\* ------------------------------------------------------------------------
\* The older variant, convert_chase_cc_statement_pdf_to_csv.py.  Its
\* io_manager keeps the lines as the newer one does (reversed, next() pops
\* the last, [n] looks ahead and gives '' past the end); its
\* statement_parser holds the month to year mapping and has three states;
\* each of its parsers loops over the lines itself.  The variables are those
\* of the newer program: delivered holds the records printed, calls holds
\* the "STATE:" line that the call of p has printed, and meta_data_parsers
\* is not used.

\* statement_period_parser.engine.match(line): the rule has the text of the
\* period rule of the newer program.
statement_period_engine(line) == period_meta_data_engine(line)

\* The splits of the text before " (EXCHG RATE)" at a " X " with a
\* quantity on each side: (-?positive_quantity) X (-?positive_quantity)
exchange_quantity_splits(m) ==
  {j \in 1..(Len(m) - 2) : /\ SubSeq(m, j, j + 2) = <<" ", "X", " ">>
                           /\ quantity_rule(SubSeq(m, 1, j - 1))
                           /\ quantity_rule(From(m, j + 3))}

\* transaction_data_parser.exchange_rate_calculation_engine.match(line)
exchange_quantity_engine(line) ==
  IF Len(line) >= 13 /\ From(line, Len(line) - 12) = ExchgRate
  THEN LET m == SubSeq(line, 1, Len(line) - 13)
       IN IF exchange_quantity_splits(m) = {} THEN NoMatch
          ELSE LET j == CHOOSE x \in exchange_quantity_splits(m) : TRUE
               IN [matched |-> TRUE,
                   groups |-> <<SubSeq(m, 1, j - 1), From(m, j + 3)>>]
  ELSE NoMatch

\* atof: float() of the text without its commas.
atof(str) == str_to_float(str)

\* What a call of a parser of the older variant did: ret is "return" or
\* "raise", error names the exception, iom is the iom after the call, value
\* is what the call returned and printed holds the records it printed.
Outcome(ret, exception, iom, value, printed) ==
  [ret |-> ret, error |-> exception, iom |-> iom, value |-> value,
   printed |-> printed]

\* statement_period_parser.__call__ with the bug of letting the
\* StopIteration of the end of the input through.
RECURSIVE statement_period_parser_stops(_)
statement_period_parser_stops(iom) ==
  LET n == next(iom)
      match == statement_period_engine(n.line)
      g == match.groups
  IN IF n.stop
     THEN Outcome("raise", "StopIteration", iom, <<>>, <<>>)
     ELSE IF ~match.matched THEN statement_period_parser_stops(n.iom)
     ELSE IF ~month_day_year_ok(int(g[1]), int(g[2]), int(g[3]))
          THEN Outcome("raise", "invalid_date", n.iom, <<>>, <<>>)
     ELSE IF ~month_day_year_ok(int(g[4]), int(g[5]), int(g[6]))
          THEN Outcome("raise", "invalid_date", n.iom, <<>>, <<>>)
     ELSE Outcome("return", "none", n.iom,
            <<month_day_year(int(g[1]), int(g[2]), int(g[3])),
              month_day_year(int(g[4]), int(g[5]), int(g[6]))>>, <<>>)

\* statement_period_parser.__call__: lines are consumed until one matches;
\* the end of the input fails the assertion.
RECURSIVE statement_period_parser(_)
statement_period_parser(iom) ==
  LET n == next(iom)
      match == statement_period_engine(n.line)
      g == match.groups
  IN IF n.stop
     THEN Outcome("raise", "no_statement_period", iom, <<>>, <<>>)
     ELSE IF ~match.matched THEN statement_period_parser(n.iom)
     ELSE IF ~month_day_year_ok(int(g[1]), int(g[2]), int(g[3]))
          THEN Outcome("raise", "invalid_date", n.iom, <<>>, <<>>)
     ELSE IF ~month_day_year_ok(int(g[4]), int(g[5]), int(g[6]))
          THEN Outcome("raise", "invalid_date", n.iom, <<>>, <<>>)
     ELSE Outcome("return", "none", n.iom,
            <<month_day_year(int(g[1]), int(g[2]), int(g[3])),
              month_day_year(int(g[4]), int(g[5]), int(g[6]))>>, <<>>)

\* transaction_header_parser.__call__: lines are consumed until "Date of"
\* is consumed with the second header line next, which is consumed too;
\* the StopIteration of the end of the input is not caught.
RECURSIVE transaction_header_parser(_)
transaction_header_parser(iom) ==
  LET n == next(iom)
  IN IF n.stop
     THEN Outcome("raise", "StopIteration", iom, <<>>, <<>>)
     ELSE IF /\ n.line = DateOf
             /\ getitem(n.iom, 0) = TransactionMerchantName
          THEN Outcome("return", "none", next(n.iom).iom, <<>>, <<>>)
     ELSE transaction_header_parser(n.iom)

\* transaction_data_parser.__call__: each line is consumed and matched as a
\* lead line; the first that does not match ends the block (and stays
\* consumed); a record is printed as soon as it is read.  The records have
\* the fields of those of the newer program, with a date without a year.
RECURSIVE transaction_data_parser(_, _)
transaction_data_parser(iom, printed) ==
  LET n == next(iom)
      domestic_match == domestic_transaction_record_engine(n.line)
      g == domestic_match.groups
      foreign3_match == exchange_quantity_engine(getitem(n.iom, 1))
      foreign2_match == exchange_date_and_currency_engine(getitem(n.iom, 0))
      f == foreign2_match.groups
      consumed3 == next(next(n.iom).iom).iom
  IN IF n.stop
     THEN Outcome("raise", "StopIteration", iom, <<>>, printed)
     ELSE IF ~domestic_match.matched
     THEN Outcome("return", "none", n.iom, <<>>, printed)
     ELSE IF ~month_day_ok(int(g[1]), int(g[2]))
     THEN Outcome("raise", "invalid_date", n.iom, <<>>, printed)
     ELSE IF foreign3_match.matched
     THEN IF ~foreign2_match.matched
          THEN Outcome("raise", "foreign_2nd_line", n.iom, <<>>, printed)
          ELSE IF ~month_day_ok(int(f[1]), int(f[2]))
          THEN Outcome("raise", "invalid_date", consumed3, <<>>, printed)
          ELSE IF \/ ~atof(foreign3_match.groups[1]).ok
                  \/ ~atof(foreign3_match.groups[2]).ok
                  \/ ~atof(g[4]).ok
          THEN Outcome("raise", "ValueError", consumed3, <<>>, printed)
          ELSE transaction_data_parser(consumed3,
                 Append(printed,
                   foreign_transaction_record(
                     month_day(int(g[1]), int(g[2])), g[3], atof(g[4]).value,
                     month_day(int(f[1]), int(f[2])), f[3],
                     atof(foreign3_match.groups[1]).value,
                     atof(foreign3_match.groups[2]).value)))
     ELSE IF ~atof(g[4]).ok
     THEN Outcome("raise", "ValueError", n.iom, <<>>, printed)
     ELSE transaction_data_parser(n.iom,
            Append(printed,
              domestic_transaction_record(
                month_day(int(g[1]), int(g[2])), g[3], atof(g[4]).value)))

\* dict[key] = value
setitem(mapping, key, value) ==
  [m \in DOMAIN mapping \cup {key} |-> IF m = key THEN value ELSE mapping[m]]

\* What a call of statement_parser did: the state and the mapping after it.
Parsed(outcome, next_state, mapping) ==
  [ret |-> outcome.ret, error |-> outcome.error, iom |-> outcome.iom,
   printed |-> outcome.printed, state |-> next_state,
   month_year_mapping |-> mapping]

\* statement_parser.parse_meta_data
parse_meta_data(self, iom) ==
  LET outcome == statement_period_parser(iom)
      statement_period == outcome.value
  IN IF outcome.ret = "raise"
     THEN Parsed(outcome, self.state, self.month_year_mapping)
     ELSE Parsed(outcome, NON_TRANSACTION_STATE,
            setitem(setitem(self.month_year_mapping,
                            statement_period[1].month,
                            statement_period[1].year),
                    statement_period[2].month, statement_period[2].year))

\* statement_parser.parse_non_transaction
parse_non_transaction(self, iom) ==
  LET outcome == transaction_header_parser(iom)
  IN IF outcome.ret = "raise"
     THEN Parsed(outcome, self.state, self.month_year_mapping)
     ELSE Parsed(outcome, TRANSACTION_STATE, self.month_year_mapping)

\* statement_parser.parse_transaction
parse_transaction(self, iom) ==
  LET outcome == transaction_data_parser(iom, <<>>)
  IN IF outcome.ret = "raise"
     THEN Parsed(outcome, self.state, self.month_year_mapping)
     ELSE Parsed(outcome, NON_TRANSACTION_STATE, self.month_year_mapping)

\* statement_parser.__call__
statement_parser(self, iom) ==
  CASE self.state = META_DATA_STATE -> parse_meta_data(self, iom)
    [] self.state = TRANSACTION_STATE -> parse_transaction(self, iom)
    [] self.state = NON_TRANSACTION_STATE -> parse_non_transaction(self, iom)
    [] OTHER -> Parsed(Outcome("raise", "invalid_state", iom, <<>>, <<>>),
                       self.state, self.month_year_mapping)

\* The inputs of the older variant: any lines, one at the least, since
\* split("\n") gives one line even for the empty text, and statements of
\* the period and two headers, each followed by a block.
CsvVocabulary == {PeriodLine, DateOf, TransactionMerchantName, DomesticLine,
                  ExchangeDateLine, ExchangeRateLine, NoiseLine, BadDateLine,
                  BadAmountLine}

CsvBlockVocabulary == {DomesticLine, ExchangeDateLine, ExchangeRateLine,
                       NoiseLine, BadDateLine}

MaxCsvLines == 3

MaxCsvBlock == 2

CsvInputs ==
  (SeqsUpTo(CsvVocabulary, MaxCsvLines) \ {<<>>})
  \cup {<<PeriodLine, DateOf, TransactionMerchantName>> \o b[1]
          \o <<DateOf, TransactionMerchantName>> \o b[2] :
          b \in SeqsUpTo(CsvBlockVocabulary, MaxCsvBlock)
                \X SeqsUpTo(CsvBlockVocabulary, MaxCsvBlock)}

\* iom = io_manager(*args); p = statement_parser()
InitCsv ==
  /\ input \in CsvInputs
  /\ input_sequence = Reverse(input)
  /\ month_year_mapping = <<>>
  /\ consumed = <<>>
  /\ state = META_DATA_STATE
  /\ meta_data_parsers = <<>>
  /\ delivered = <<>>
  /\ pc = "running"
  /\ error = "none"
  /\ calls = <<>>

\* One turn of the loop "while True: p(iom)": the call prints the state and
\* runs the parser of the state.  A StopIteration that leaves p ends the
\* loop normally, any other exception ends the run.
CallStatementParser ==
  \E r \in {statement_parser(
              [state |-> state, month_year_mapping |-> month_year_mapping],
              iom_now)} :
     /\ input_sequence' = r.iom.input_sequence
     /\ consumed' = r.iom.consumed
     /\ month_year_mapping' = r.month_year_mapping
     /\ state' = r.state
     /\ delivered' = delivered \o r.printed
     /\ pc' = CASE r.ret = "return" -> "running"
                [] r.error = "StopIteration" -> "exhausted"
                [] OTHER -> "aborted"
     /\ error' = r.error
     /\ calls' = <<state>>
     /\ UNCHANGED <<input, meta_data_parsers>>

ParseMetaDataStep ==
  pc = "running" /\ state = META_DATA_STATE /\ CallStatementParser

ParseNonTransactionStep ==
  pc = "running" /\ state = NON_TRANSACTION_STATE /\ CallStatementParser

ParseTransactionStep ==
  pc = "running" /\ state = TRANSACTION_STATE /\ CallStatementParser

NextCsv ==
  \/ ParseMetaDataStep
  \/ ParseNonTransactionStep
  \/ ParseTransactionStep

SpecCsv == InitCsv /\ [][NextCsv]_vars

\* ------------------------------------------------------------------------
\* Definitions shared by the properties.

\* The first sub-parser call of the last call of p: the call of the parser
\* that belongs to the state p was in.
first_call == calls[1]

\* The last tuple handed to the user action.
last_delivered == delivered[Len(delivered)]

\* The last k consumed lines.
LastConsumed(k) == SubSeq(consumed, Len(consumed) - k + 1, Len(consumed))

\* The line that is i positions after the next unconsumed line of the
\* input, '' past the end.
Ahead(i) ==
  IF Len(consumed) + i + 1 <= Len(input) THEN input[Len(consumed) + i + 1]
  ELSE <<>>

IsRecordParser(sub_parser) == sub_parser = "transaction_record_parser"

IsNoiseParser(sub_parser) == sub_parser = "non_transaction_record_parser"

\* A call of p is about to run the transaction record parser.
AtRecordParser ==
  pc = "running" /\ state \in {PRE_TRANSACTION_STATE, TRANSACTION_STATE}

\* ------------------------------------------------------------------------
\* C1.  Conservation of lines: at every point of a run the lines consumed so
\* far, followed by the unconsumed lines, are the input lines in input
\* order, and when p has returned False the lines consumed are the whole
\* input.
C1_Conservation ==
  /\ consumed \o Reverse(input_sequence) = input
  /\ pc = "exhausted" => consumed = input /\ Len(consumed) = Len(input)

\* A run that ended by exhaustion after a multi-line record was consumed.
C1_Witness ==
  /\ pc = "exhausted"
  /\ Len(input) >= 5
  /\ \E i \in 1..Len(delivered) :
       /\ IsRecordParser(delivered[i].sub_parser)
       /\ delivered[i].value.type = "TRANSIT"

\* C2.  In Transaction state a call of p whose transaction record parser
\* fails on the next unconsumed line switches to NonTransaction and
\* consumes no line, so that the line is still the next one afterwards.
C2_FailedMatchConsumesNothing ==
  [][(/\ pc = "running"
      /\ state = TRANSACTION_STATE
      /\ Len(input_sequence) > 0
      /\ ~domestic_transaction_record_engine(getitem(iom_now, 0)).matched)
     => (/\ state' = NON_TRANSACTION_STATE
         /\ input_sequence' = input_sequence)]_vars

\* C3.  A header that follows a transaction block directly is matched as a
\* header: the user action never receives "Date of" and then the second
\* header line as two non-transaction lines of NonTransaction state.
C3_HeaderAfterBlockMatched ==
  \A j \in 1..(Len(delivered) - 1) :
    ~(/\ IsNoiseParser(delivered[j].sub_parser)
      /\ IsNoiseParser(delivered[j + 1].sub_parser)
      /\ delivered[j].state = NON_TRANSACTION_STATE
      /\ delivered[j + 1].state = NON_TRANSACTION_STATE
      /\ delivered[j].value = DateOf
      /\ delivered[j + 1].value = TransactionMerchantName)

\* C4.  MissingPeriod: a run whose input is exhausted in MetaData state
\* does not end normally (by p returning False).
C4_MissingPeriodIsFatal ==
  ~(pc = "exhausted" /\ state = META_DATA_STATE)

\* C5.  Progress: a call of p that does not abort either returns True and
\* has consumed at least one line, or returns False and has consumed
\* nothing, and it returns False only when no unconsumed line was left.
C5_Progress ==
  [][pc' # "aborted" =>
       \/ /\ pc' = "running"
          /\ Len(input_sequence') < Len(input_sequence)
       \/ /\ pc' = "exhausted"
          /\ input_sequence = <<>>
          /\ input_sequence' = input_sequence
          /\ consumed' = consumed]_vars

\* A run that ended by exhaustion in PreTransaction state.
C5_Witness ==
  /\ pc = "exhausted"
  /\ state = PRE_TRANSACTION_STATE
  /\ Len(consumed) > 3

\* The state changes a call of p may make, each with the sub-parser result
\* that allows it.
AllowedTransition(from, to, call) ==
  \/ /\ from = META_DATA_STATE /\ to = NON_TRANSACTION_STATE
     /\ call.parser = "period_meta_data_record_parser" /\ Truthy(call.ret)
  \/ /\ from = NON_TRANSACTION_STATE /\ to = PRE_TRANSACTION_STATE
     /\ call.parser = "transaction_header_record_parser" /\ Truthy(call.ret)
  \/ /\ from = PRE_TRANSACTION_STATE /\ to = TRANSACTION_STATE
     /\ IsRecordParser(call.parser) /\ Truthy(call.ret)
  \/ /\ from = TRANSACTION_STATE /\ to = NON_TRANSACTION_STATE
     /\ IsRecordParser(call.parser) /\ call.ret = "False"

\* C6.  The state starts at MetaData and changes only by the four
\* transitions: MetaData to NonTransaction on a period match,
\* NonTransaction to PreTransaction on a header match, PreTransaction to
\* Transaction on a record match, Transaction to NonTransaction on a failed
\* record match.
C6_Transitions ==
  /\ state = META_DATA_STATE
  /\ [][state' # state => AllowedTransition(state, state', calls'[1])]_vars

\* The machine is back in NonTransaction state after a failed record match.
C6_Witness ==
  /\ state = NON_TRANSACTION_STATE
  /\ Len(calls) > 0
  /\ IsRecordParser(first_call.parser)
  /\ first_call.ret = "False"

\* C7.  Consume only on success: a call of the period, header or record
\* parser that reports failure has consumed no line, called no action and
\* left the month to year mapping alone; the header parser reports failure
\* when line 0 is "Date of" and line 1 is not the second header line.
C7_ConsumeOnlyOnSuccess ==
  [][/\ \A i \in 1..Len(calls') :
          (~IsNoiseParser(calls'[i].parser)
           /\ calls'[i].ret \in {"False", "None"})
          => /\ calls'[i].lines = 0
             /\ calls'[i].actions = 0
             /\ ~calls'[i].mapping_changed
     /\ (/\ pc = "running"
         /\ state = NON_TRANSACTION_STATE
         /\ getitem(iom_now, 0) = DateOf
         /\ getitem(iom_now, 1) # TransactionMerchantName)
        => /\ ~Truthy(calls'[1].ret)
           /\ calls'[1].lines = 0
           /\ state' = NON_TRANSACTION_STATE]_vars

\* The header parser has failed on "Date of" without the second line.
C7_Witness ==
  /\ Len(calls) = 2
  /\ first_call.parser = "transaction_header_record_parser"
  /\ first_call.ret = "None"
  /\ consumed[Len(consumed)] = DateOf

\* The lines of the record a successful call has reported, k of them.
RecordLines(call, value, k) ==
  LET rec == LastConsumed(k)
  IN CASE call.parser = "period_meta_data_record_parser" ->
            k = 1 /\ period_meta_data_engine(rec[1]).matched
       [] call.parser = "transaction_header_record_parser" ->
            k = 2 /\ rec = <<DateOf, TransactionMerchantName>>
       [] IsRecordParser(call.parser) /\ value.type = "DOMESTIC" ->
            k = 1 /\ domestic_transaction_record_engine(rec[1]).matched
       [] IsRecordParser(call.parser) /\ value.type = "FOREIGN" ->
            /\ k = 3
            /\ domestic_transaction_record_engine(rec[1]).matched
            /\ exchange_date_and_currency_engine(rec[2]).matched
            /\ exchange_rate_calculation_engine(rec[3]).matched
       [] IsRecordParser(call.parser) /\ value.type = "TRANSIT" ->
            /\ k = 1 + Len(value.transit_legs)
            /\ k >= 2
            /\ domestic_transaction_record_engine(rec[1]).matched
            /\ transit_leg_with_id_engine(rec[2]).matched
            /\ \A i \in 3..k : transit_leg_engine(rec[i]).matched
       [] OTHER -> FALSE

\* C8.  A successful call of the period, header or record parser has
\* consumed exactly the lines of the record it reports (period 1, header 2,
\* Domestic 1, Foreign 3, Transit 1 plus the legs), and the line after the
\* record is the next unconsumed line.
C8_ConsumesExactlyTheRecord ==
  (Len(calls) > 0 /\ Truthy(first_call.ret) /\ ~IsNoiseParser(first_call.parser))
  => /\ Len(calls) = 1
     /\ Len(delivered) > 0
     /\ first_call.lines \in 1..Len(consumed)
     /\ RecordLines(first_call, last_delivered.value, first_call.lines)
     /\ getitem(iom_now, 0) = Ahead(0)
     /\ Len(consumed) + Len(input_sequence) = Len(input)

\* A Transit record of two lines has just been reported and a line that is
\* not a transit leg follows it.
C8_Witness ==
  /\ Len(calls) = 1
  /\ IsRecordParser(first_call.parser)
  /\ Truthy(first_call.ret)
  /\ first_call.lines = 2
  /\ last_delivered.value.type = "TRANSIT"
  /\ Len(input_sequence) > 0

\* The shape the lookahead decides for a lead line that is the next
\* unconsumed line: Foreign first, then Transit, then Domestic.
ShapeAhead ==
  IF exchange_rate_calculation_engine(Ahead(2)).matched THEN "FOREIGN"
  ELSE IF transit_leg_with_id_engine(Ahead(1)).matched THEN "TRANSIT"
  ELSE "DOMESTIC"

\* C9.  Record shape dispatch: when the record parser matches a lead line,
\* the record it reports is Foreign if and only if the line two positions
\* after the lead matches the exchange rate pattern, otherwise Transit if
\* and only if the line after the lead matches the transit leg with id
\* pattern, otherwise Domestic; when both checks hold the Foreign branch
\* handles the lines, and no Transit record is reported.
C9_ShapeDispatch ==
  [][(/\ AtRecordParser
      /\ domestic_transaction_record_engine(getitem(iom_now, 0)).matched)
     => /\ pc' = "running" =>
             /\ Len(delivered') = Len(delivered) + 1
             /\ IsRecordParser(delivered'[Len(delivered')].sub_parser)
             /\ delivered'[Len(delivered')].value.type = ShapeAhead
        /\ (/\ exchange_rate_calculation_engine(Ahead(2)).matched
            /\ transit_leg_with_id_engine(Ahead(1)).matched)
           => /\ pc' = "aborted"
              /\ delivered' = delivered]_vars

\* The Foreign branch has taken lines that pass the Transit check too.
C9_Witness ==
  /\ pc = "aborted"
  /\ error = "foreign_2nd_line"
  /\ transit_leg_with_id_engine(getitem(iom_now, 0)).matched
  /\ exchange_rate_calculation_engine(getitem(iom_now, 1)).matched

\* The errors that end a call on a lead line before the lookahead.
LeadErrors == {"invalid_date", "unmapped_month", "ValueError"}

\* C10.  AmbiguousForeignRecord: when the lead line matches the domestic
\* pattern, the line two positions after it matches the exchange rate
\* pattern and the line between them does not match the exchange date and
\* currency pattern, the run aborts; no record is delivered for the lead
\* line, and nothing is delivered after an abort.
C10_AmbiguousForeignAborts ==
  [][/\ (/\ AtRecordParser
         /\ domestic_transaction_record_engine(getitem(iom_now, 0)).matched
         /\ exchange_rate_calculation_engine(Ahead(2)).matched
         /\ ~exchange_date_and_currency_engine(Ahead(1)).matched)
        => /\ pc' = "aborted"
           /\ error' \in LeadErrors \cup {"foreign_2nd_line"}
           /\ delivered' = delivered
     /\ pc = "aborted" => delivered' = delivered /\ pc' = "aborted"]_vars

\* The run has aborted on a lead line, a line of noise and an exchange
\* rate line.
C10_Witness ==
  /\ pc = "aborted"
  /\ error = "foreign_2nd_line"
  /\ getitem(iom_now, 0) = NoiseLine
  /\ getitem(iom_now, 1) = ExchangeRateLine
  /\ consumed[Len(consumed)] = DomesticLine

\* The month and the day a line starts with, as numbers.
LineMonth(line) == int(SubSeq(line, 1, 2))

LineDay(line) == int(SubSeq(line, 4, 5))

\* The line starts with a date that month_day() accepts.
DatedLine(line) ==
  month_day_rule(line, 1) /\ month_day_ok(LineMonth(line), LineDay(line))

\* The next unconsumed line is a lead line with a date month_day() accepts.
LeadAhead ==
  /\ AtRecordParser
  /\ domestic_transaction_record_engine(getitem(iom_now, 0)).matched
  /\ DatedLine(getitem(iom_now, 0))

\* The next three unconsumed lines are those of a Foreign record whose lead
\* line resolves and whose exchange date is one month_day() accepts.
ForeignAhead ==
  /\ LeadAhead
  /\ LineMonth(getitem(iom_now, 0)) \in DOMAIN month_year_mapping
  /\ str_to_float(
       domestic_transaction_record_engine(getitem(iom_now, 0)).groups[4]).ok
  /\ exchange_rate_calculation_engine(getitem(iom_now, 2)).matched
  /\ exchange_date_and_currency_engine(getitem(iom_now, 1)).matched
  /\ DatedLine(getitem(iom_now, 1))

\* C11.  UnresolvedMonth: when the lead line of a transaction, or the
\* exchange date line of a Foreign record, has a month with no entry in the
\* month to year mapping, the call aborts on the failed lookup and delivers
\* nothing; every transaction record that is delivered has, for each of its
\* dates, the year the mapping holds for the month of the date.
C11_UnresolvedMonth ==
  [][/\ (/\ LeadAhead
         /\ LineMonth(getitem(iom_now, 0)) \notin DOMAIN month_year_mapping)
        => /\ pc' = "aborted"
           /\ error' = "unmapped_month"
           /\ delivered' = delivered
     /\ (/\ ForeignAhead
         /\ LineMonth(getitem(iom_now, 1)) \notin DOMAIN month_year_mapping)
        => /\ pc' = "aborted"
           /\ error' = "unmapped_month"
           /\ delivered' = delivered
     /\ \A i \in 1..Len(delivered') :
          IsRecordParser(delivered'[i].sub_parser)
          => LET v == delivered'[i].value
             IN /\ v.date.month \in DOMAIN month_year_mapping'
                /\ v.date.year = month_year_mapping'[v.date.month]
                /\ v.type = "FOREIGN"
                   => /\ v.exchange_date.month \in DOMAIN month_year_mapping'
                      /\ v.exchange_date.year
                           = month_year_mapping'[v.exchange_date.month]]_vars

\* The run has aborted on the exchange date line of a Foreign record: the
\* month of the lead line is mapped, the month of the exchange date is not.
C11_Witness ==
  /\ pc = "aborted"
  /\ error = "unmapped_month"
  /\ Len(consumed) >= 3
  /\ exchange_rate_calculation_engine(LastConsumed(3)[3]).matched
  /\ LineMonth(LastConsumed(3)[1]) \in DOMAIN month_year_mapping
  /\ LineMonth(LastConsumed(3)[2]) \notin DOMAIN month_year_mapping
  /\ delivered # <<>>
  /\ ~IsRecordParser(last_delivered.sub_parser)

\* add_year on the date (m, d) with the mapping of this state gives the
\* date (m, d, year of m).
Resolves(m, d) ==
  LET r == add_year(iom_now, month_day(m, d))
  IN /\ r.ok
     /\ r.value.month = m
     /\ r.value.day = d
     /\ r.value.year = month_year_mapping[m]

\* C12.  Date resolution totality: for every month m that has an entry in
\* the month to year mapping and every day d of 1..31, add_year on the date
\* (m, d) does not fail and returns the date (m, d, entry of m); a call of
\* the record parser on a lead line whose month has an entry leaves the
\* mapping as it was, and the record it delivers has that date.
C12_DateResolution ==
  /\ [](\A m \in DOMAIN month_year_mapping : \A d \in 1..31 : Resolves(m, d))
  /\ [][(/\ LeadAhead
         /\ LineMonth(getitem(iom_now, 0)) \in DOMAIN month_year_mapping)
        => /\ month_year_mapping' = month_year_mapping
           /\ pc' = "running"
              => LET date == delivered'[Len(delivered')].value.date
                 IN /\ date.month = LineMonth(getitem(iom_now, 0))
                    /\ date.day = LineDay(getitem(iom_now, 0))
                    /\ date.year = month_year_mapping[date.month]]_vars

\* A record of day 31 of the closing month of a period of two months has
\* been delivered with the year of the closing date.
C12_Witness ==
  /\ Cardinality(DOMAIN month_year_mapping) = 2
  /\ delivered # <<>>
  /\ IsRecordParser(last_delivered.sub_parser)
  /\ last_delivered.value.date.day = 31
  /\ last_delivered.value.date.month = LineMonth(From(input[1], 33))
  /\ last_delivered.value.date.year = int(SubSeq(input[1], 39, 40))
  /\ LineMonth(From(input[1], 22)) # LineMonth(From(input[1], 33))

\* The next unconsumed line is a period line that the period parser is
\* about to match.
PeriodAhead ==
  /\ pc = "running"
  /\ state = META_DATA_STATE
  /\ period_meta_data_engine(getitem(iom_now, 0)).matched

\* The period line that was matched in this run, when one was.
MatchedPeriodLine == consumed[Len(consumed)]

\* C13.  After the period line is matched the month to year mapping has
\* entries for exactly the opening month and the closing month, two entries
\* when the months differ and one when they are equal; the closing month
\* has the closing year, and the opening month has the opening year unless
\* it is the closing month.  Adding a (month, year) that was just added
\* leaves the mapping as after the first addition.
C13_PeriodFillsMapping ==
  /\ [][PeriodAhead
        => LET g == period_meta_data_engine(getitem(iom_now, 0)).groups
               om == int(g[1])
               oy == int(g[3])
               cm == int(g[4])
               cy == int(g[6])
           IN /\ DOMAIN month_year_mapping' = {om, cm}
              /\ Cardinality(DOMAIN month_year_mapping')
                   = IF om = cm THEN 1 ELSE 2
              /\ month_year_mapping'[cm] = cy
              /\ om # cm => month_year_mapping'[om] = oy]_vars
  /\ [](\A m \in 1..12 : \A y \in AnchorYears :
          LET once == add_month_year_mapping(month_year_mapping,
                                             month_day_year(m, 1, y))
          IN add_month_year_mapping(once, month_day_year(m, 1, y)) = once)

\* A period whose opening and closing dates have the same month and
\* different years has been matched, and the mapping has the closing year.
C13_Witness ==
  /\ state # META_DATA_STATE
  /\ Len(consumed) = 1
  /\ LineMonth(From(MatchedPeriodLine, 22)) = LineMonth(From(MatchedPeriodLine, 33))
  /\ int(SubSeq(MatchedPeriodLine, 28, 29)) # int(SubSeq(MatchedPeriodLine, 39, 40))
  /\ Cardinality(DOMAIN month_year_mapping) = 1
  /\ month_year_mapping[LineMonth(From(MatchedPeriodLine, 33))]
       = int(SubSeq(MatchedPeriodLine, 39, 40))

\* The number of periods among the first n tuples of a sequence of
\* delivered tuples.
RECURSIVE PeriodCount(_, _)
PeriodCount(tuples, n) ==
  IF n = 0 THEN 0
  ELSE PeriodCount(tuples, n - 1)
         + (IF tuples[n].sub_parser = "period_meta_data_record_parser"
            THEN 1 ELSE 0)

\* C14.  The period is created once and the month to year mapping is
\* written only by the match of the period line: a step taken after the
\* machine has left MetaData state leaves the mapping as it was, and when
\* the next unconsumed line matches the period pattern then, whatever the
\* state, the step consumes that one line and delivers it, escaped, as a
\* non-transaction line; at most one period is ever delivered.
C14_PeriodOnce ==
  [][/\ state # META_DATA_STATE
        => month_year_mapping' = month_year_mapping
     /\ (/\ pc = "running"
         /\ state # META_DATA_STATE
         /\ period_meta_data_engine(getitem(iom_now, 0)).matched)
        => /\ pc' = "running"
           /\ state' = (IF state = TRANSACTION_STATE
                        THEN NON_TRANSACTION_STATE ELSE state)
           /\ consumed' = Append(consumed, getitem(iom_now, 0))
           /\ Len(delivered') = Len(delivered) + 1
           /\ SubSeq(delivered', 1, Len(delivered)) = delivered
           /\ IsNoiseParser(delivered'[Len(delivered')].sub_parser)
           /\ delivered'[Len(delivered')].state = state'
           /\ delivered'[Len(delivered')].value
                = escape_str(getitem(iom_now, 0))
     /\ PeriodCount(delivered', Len(delivered')) <= 1]_vars

\* A second period line has been delivered as a non-transaction line after
\* a transaction record, and the period was delivered before.
C14_Witness ==
  /\ Len(delivered) >= 2
  /\ IsNoiseParser(last_delivered.sub_parser)
  /\ period_meta_data_engine(consumed[Len(consumed)]).matched
  /\ IsRecordParser(delivered[Len(delivered) - 1].sub_parser)
  /\ PeriodCount(delivered, Len(delivered)) = 1
  /\ DOMAIN month_year_mapping = {4, 5}

\* The number of input lines a delivered tuple stands for.
LinesOf(tup) ==
  CASE tup.sub_parser = "period_meta_data_record_parser" -> 1
    [] tup.sub_parser = "transaction_header_record_parser" -> 2
    [] IsNoiseParser(tup.sub_parser) -> 1
    [] IsRecordParser(tup.sub_parser) ->
         CASE tup.value.type = "DOMESTIC" -> 1
           [] tup.value.type = "FOREIGN" -> 3
           [] tup.value.type = "TRANSIT" -> 1 + Len(tup.value.transit_legs)

\* The number of input lines the first n of the tuples stand for.
RECURSIVE LinesUpTo(_, _)
LinesUpTo(tuples, n) ==
  IF n = 0 THEN 0 ELSE LinesUpTo(tuples, n - 1) + LinesOf(tuples[n])

\* The position in the input of the first line of the jth tuple.
StartOf(tuples, j) == LinesUpTo(tuples, j - 1) + 1

\* The number of transaction records among the first n of the tuples.
RECURSIVE RecordCount(_, _)
RecordCount(tuples, n) ==
  IF n = 0 THEN 0
  ELSE RecordCount(tuples, n - 1)
         + (IF IsRecordParser(tuples[n].sub_parser) THEN 1 ELSE 0)

\* The jth tuple is the transaction record of the lead line at its
\* position in the input.
RecordOfLead(tuples, j) ==
  LET pos == StartOf(tuples, j)
      lead == domestic_transaction_record_engine(input[pos])
  IN /\ pos <= Len(input)
     /\ lead.matched
     /\ tuples[j].value.date.month = int(lead.groups[1])
     /\ tuples[j].value.date.day = int(lead.groups[2])
     /\ tuples[j].value.description = escape_str(lead.groups[3])

\* C15.  Sink delivery: in a call of p every sub-parser that matched has
\* called the user action once and every sub-parser that failed has not
\* called it, and the call of p has called it at most once; each
\* transaction record delivered is the record of a lead line of the input,
\* the records are delivered in the order of their lead lines, each once;
\* the regular mode prints the transaction records and nothing else: a
\* step that delivers a transaction record adds it to the output and any
\* other step leaves the output as it was.
C15_SinkDelivery ==
  [][/\ \A i \in 1..Len(calls') :
          calls'[i].actions = (IF Truthy(calls'[i].ret) THEN 1 ELSE 0)
     /\ Len(delivered') \in {Len(delivered), Len(delivered) + 1}
     /\ SubSeq(delivered', 1, Len(delivered)) = delivered
     /\ \A j \in 1..Len(delivered') :
          IsRecordParser(delivered'[j].sub_parser)
          => RecordOfLead(delivered', j)
     /\ LET before == regular_output(delivered, Len(delivered))
            after == regular_output(delivered', Len(delivered'))
        IN /\ Len(after) = RecordCount(delivered', Len(delivered'))
           /\ SubSeq(after, 1, Len(before)) = before
           /\ IF /\ Len(delivered') > Len(delivered)
                 /\ IsRecordParser(delivered'[Len(delivered')].sub_parser)
              THEN /\ Len(after) = Len(before) + 1
                   /\ after[Len(after)] = delivered'[Len(delivered')].value
              ELSE Len(after) = Len(before)]_vars

\* Two transaction records and then a line of noise were delivered, the
\* run has ended and the regular mode has printed the two records.
C15_Witness ==
  /\ pc = "exhausted"
  /\ Len(delivered) = 5
  /\ IsRecordParser(delivered[3].sub_parser)
  /\ IsRecordParser(delivered[4].sub_parser)
  /\ IsNoiseParser(delivered[5].sub_parser)
  /\ regular_output(delivered, Len(delivered))
       = <<delivered[3].value, delivered[4].value>>

\* The jth tuple is a value of one of the four kinds and stands for the
\* lines of the input at its position: the period for a period line, the
\* header for the two header lines, a transaction record for its lead line
\* and the lines that continue it, a non-transaction line for one line.
Classified(tuples, j) ==
  LET pos == StartOf(tuples, j)
      last == pos + LinesOf(tuples[j]) - 1
      tup == tuples[j]
  IN /\ last <= Len(input)
     /\ CASE tup.sub_parser = "period_meta_data_record_parser" ->
               period_meta_data_engine(input[pos]).matched
          [] tup.sub_parser = "transaction_header_record_parser" ->
               /\ input[pos] = DateOf
               /\ input[pos + 1] = TransactionMerchantName
          [] IsNoiseParser(tup.sub_parser) ->
               tup.value = escape_str(input[pos])
          [] IsRecordParser(tup.sub_parser) ->
               /\ RecordOfLead(tuples, j)
               /\ tup.value.type = "FOREIGN"
                  => /\ exchange_date_and_currency_engine(input[pos + 1]).matched
                     /\ exchange_rate_calculation_engine(input[pos + 2]).matched
               /\ tup.value.type = "TRANSIT"
                  => /\ last > pos
                     /\ transit_leg_with_id_engine(input[pos + 1]).matched
                     /\ \A i \in (pos + 2)..last :
                          transit_leg_engine(input[i]).matched
          [] OTHER -> FALSE

\* C16.  Classification exhaustiveness: when a run has ended by exhaustion
\* every input line belongs to exactly one delivered value, which is the
\* period, a header of two lines, a transaction record with the lines that
\* continue it, or a non-transaction line: the values stand for adjoining
\* runs of lines that start at the first line and end at the last.
C16_Classification ==
  pc = "exhausted"
  => /\ \A j \in 1..Len(delivered) : Classified(delivered, j)
     /\ LinesUpTo(delivered, Len(delivered)) = Len(input)

\* A run has ended with the period, a header, a Transit record of two
\* lines and a non-transaction line delivered.
C16_Witness ==
  /\ pc = "exhausted"
  /\ Len(delivered) = 4
  /\ IsRecordParser(delivered[3].sub_parser)
  /\ delivered[3].value.type = "TRANSIT"
  /\ IsNoiseParser(delivered[4].sub_parser)
  /\ Len(input) = 1 + 2 + 2 + 1

\* There is a next unconsumed line and it starts none of the things the
\* grammar knows: it is no period line, no lead line of a transaction
\* record, and no "Date of" followed by the second header line.
UnrecognizedAhead ==
  /\ pc = "running"
  /\ Len(input_sequence) > 0
  /\ ~period_meta_data_engine(getitem(iom_now, 0)).matched
  /\ ~domestic_transaction_record_engine(getitem(iom_now, 0)).matched
  /\ ~(/\ getitem(iom_now, 0) = DateOf
       /\ getitem(iom_now, 1) = TransactionMerchantName)

\* C17.  Unrecognized lines are not errors: in every state, a step whose
\* next line matches none of the period, header and domestic transaction
\* patterns does not abort; it consumes that one line and passes it,
\* escaped, to the action as a non-transaction line.
C17_UnrecognizedIsNoise ==
  [][UnrecognizedAhead
     => /\ pc' = "running"
        /\ error' = "none"
        /\ consumed' = Append(consumed, getitem(iom_now, 0))
        /\ Len(delivered') = Len(delivered) + 1
        /\ SubSeq(delivered', 1, Len(delivered)) = delivered
        /\ IsNoiseParser(delivered'[Len(delivered')].sub_parser)
        /\ delivered'[Len(delivered')].value
             = escape_str(getitem(iom_now, 0))]_vars

\* In PreTransaction state a line with a tab was delivered as a
\* non-transaction line, with the tab escaped.
C17_Witness ==
  /\ state = PRE_TRANSACTION_STATE
  /\ Len(consumed) > 3
  /\ consumed[Len(consumed)] = NoiseLine
  /\ delivered # <<>>
  /\ IsNoiseParser(last_delivered.sub_parser)
  /\ last_delivered.value = <<"a", "\\", "x", "0", "9", "b">>

\* C19.  Cursor lookahead: for every n >= 0, iom[n] is the line n positions
\* after the next unconsumed line of the input when at least n + 1 lines
\* remain and the empty string otherwise; the peeks of a parser change
\* nothing: the lines a call of p consumes after its peeks are the lines
\* iom[0], iom[1], ... had before the call.
C19_Lookahead ==
  /\ [](\A n \in 0..(Len(input) + 1) :
          getitem(iom_now, n)
            = (IF Len(input) - Len(consumed) >= n + 1
               THEN input[Len(consumed) + n + 1]
               ELSE <<>>))
  /\ [][\A k \in 1..(Len(consumed') - Len(consumed)) :
          consumed'[Len(consumed) + k] = getitem(iom_now, k - 1)]_vars

\* The record parser has peeked at the two lines after a lead line and has
\* consumed the three lines as a Foreign record.
C19_Witness ==
  /\ Len(calls) = 1
  /\ IsRecordParser(first_call.parser)
  /\ first_call.lines = 3
  /\ Len(input_sequence) = 0
  /\ Len(input) = 6
  /\ last_delivered.value.type = "FOREIGN"

\* C20.  Cursor consumption: next() removes and returns the first
\* unconsumed line, so that the lines returned so far are the input lines
\* in their order; it signals the end of the input when and only when no
\* line remains, and an empty line is returned as a line.
C20_Consumption ==
  LET n == next(iom_now)
      k == Len(consumed)
  IN /\ consumed = SubSeq(input, 1, k)
     /\ n.stop <=> k = Len(input)
     /\ n.stop => n.iom = iom_now
     /\ ~n.stop
        => /\ n.line = input[k + 1]
           /\ n.iom.consumed = SubSeq(input, 1, k + 1)
           /\ Reverse(n.iom.input_sequence) = SubSeq(input, k + 2, Len(input))
           /\ n.iom.month_year_mapping = month_year_mapping

\* An empty line has been consumed and delivered in PreTransaction state,
\* lines were left after it, and the run has gone on to the end of the
\* input.
C20_Witness ==
  /\ pc = "exhausted"
  /\ state = PRE_TRANSACTION_STATE
  /\ Len(input) >= 5
  /\ input[4] = EmptyLine
  /\ input[5] # EmptyLine
  /\ consumed = input
  /\ Len(delivered) = Len(input) - 1

\* The ranges of the fields of a date.
InRange(date) ==
  /\ date.month \in 1..12
  /\ date.day \in 1..31
  /\ "year" \in DOMAIN date => date.year \in 0..99

\* The dates of a delivered tuple are in range.
DatesInRange(tup) ==
  CASE tup.sub_parser = "period_meta_data_record_parser" ->
         InRange(tup.value.opening) /\ InRange(tup.value.closing)
    [] IsRecordParser(tup.sub_parser) ->
         /\ InRange(tup.value.date)
         /\ tup.value.type = "FOREIGN" => InRange(tup.value.exchange_date)
    [] OTHER -> TRUE

\* The text from position i of the line is a month and a day, as the date
\* rules match them, and one of the two is out of range.
OutOfRangeAt(line, i) ==
  /\ month_day_rule(line, i)
  /\ ~InRange([month |-> int(SubSeq(line, i, i + 1)),
               day |-> int(SubSeq(line, i + 3, i + 4))])

\* The text from position i of the line is a month and a day in range.
InRangeAt(line, i) ==
  /\ month_day_rule(line, i)
  /\ InRange([month |-> int(SubSeq(line, i, i + 1)),
              day |-> int(SubSeq(line, i + 3, i + 4))])

\* The call aborts on a date out of range and delivers nothing.
AbortsOnDate ==
  /\ pc' = "aborted"
  /\ error' = "invalid_date"
  /\ delivered' = delivered

\* C21.  Dates are range-checked when they are made: every date of a
\* delivered period or transaction record has its month in 1..12, its day
\* in 1..31 and its year in 0..99; a period line, a lead line or the
\* exchange date line of a Foreign record that matches its pattern with a
\* month or a day out of range aborts the run, with nothing delivered for
\* the line.
C21_DatesInRange ==
  [][/\ \A i \in 1..Len(delivered') : DatesInRange(delivered'[i])
     /\ (/\ PeriodAhead
         /\ \/ OutOfRangeAt(getitem(iom_now, 0), 22)
            \/ OutOfRangeAt(getitem(iom_now, 0), 33))
        => AbortsOnDate
     /\ (/\ AtRecordParser
         /\ domestic_transaction_record_engine(getitem(iom_now, 0)).matched
         /\ OutOfRangeAt(getitem(iom_now, 0), 1))
        => AbortsOnDate
     /\ (/\ AtRecordParser
         /\ domestic_transaction_record_engine(getitem(iom_now, 0)).matched
         /\ InRangeAt(getitem(iom_now, 0), 1)
         /\ LineMonth(getitem(iom_now, 0)) \in DOMAIN month_year_mapping
         /\ str_to_float(domestic_transaction_record_engine(
                           getitem(iom_now, 0)).groups[4]).ok
         /\ exchange_rate_calculation_engine(getitem(iom_now, 2)).matched
         /\ exchange_date_and_currency_engine(getitem(iom_now, 1)).matched
         /\ OutOfRangeAt(getitem(iom_now, 1), 1))
        => AbortsOnDate]_vars

\* The run has aborted on the exchange date line of a Foreign record whose
\* lead line has a date in range.
C21_Witness ==
  /\ pc = "aborted"
  /\ error = "invalid_date"
  /\ Len(consumed) = 6
  /\ InRangeAt(consumed[4], 1)
  /\ exchange_date_and_currency_engine(consumed[5]).matched
  /\ OutOfRangeAt(consumed[5], 1)
  /\ Len(delivered) = 2

\* The number of lines of the input, from position pos on, that match the
\* transit leg pattern one after the other.
RECURSIVE LegRun(_)
LegRun(pos) ==
  IF pos <= Len(input) /\ transit_leg_engine(input[pos]).matched
  THEN 1 + LegRun(pos + 1)
  ELSE 0

\* The leg a transit leg line stands for; the code is two positions after
\* the index digit at position i.
LegAt(line, i) ==
  [code |-> SubSeq(line, i + 2, i + 2),
   departure |-> SubSeq(line, i + 4, i + 6),
   arrival |-> SubSeq(line, i + 8, i + 10)]

\* C22.  Every Transit record delivered has at least one leg; its first
\* leg is that of the transit leg with id line, and the legs after it are
\* those of the longest run of lines after the id line that match the
\* transit leg pattern, in the order of the lines, whatever their index
\* digits; the call consumes the lead line, the id line and that run, and
\* the line that ends the run, if there is one, stays unconsumed.
C22_TransitLegs ==
  [][(/\ AtRecordParser
      /\ pc' = "running"
      /\ Len(delivered') > Len(delivered)
      /\ IsRecordParser(delivered'[Len(delivered')].sub_parser)
      /\ delivered'[Len(delivered')].value.type = "TRANSIT")
     => LET legs == delivered'[Len(delivered')].value.transit_legs
            lead == Len(consumed) + 1
            run == LegRun(lead + 2)
        IN /\ Len(legs) = 1 + run
           /\ transit_leg_with_id_engine(input[lead + 1]).matched
           /\ legs[1] = LegAt(input[lead + 1], 8)
           /\ \A i \in 1..run : legs[1 + i] = LegAt(input[lead + 1 + i], 1)
           /\ Len(consumed') = Len(consumed) + 2 + run
           /\ Len(input_sequence') = Len(input) - Len(consumed')
           /\ Len(input_sequence') > 0
              => ~transit_leg_engine(
                    input_sequence'[Len(input_sequence')]).matched]_vars

\* A Transit record of three legs has been delivered; the line of its
\* second leg has index digit 2 and the line of its third has index digit
\* 1, and the line after them is left unconsumed.
C22_Witness ==
  /\ delivered # <<>>
  /\ IsRecordParser(last_delivered.sub_parser)
  /\ last_delivered.value.type = "TRANSIT"
  /\ Len(last_delivered.value.transit_legs) = 3
  /\ LastConsumed(2) = <<TransitLegLine, EarlierLegLine>>
  /\ last_delivered.value.transit_legs[2].code = <<"B">>
  /\ last_delivered.value.transit_legs[3].code = <<"C">>
  /\ input_sequence = <<NearLegLine>>

\* The tab-separated fields of a row.
RECURSIVE Fields(_)
Fields(row) ==
  LET tabs == Positions(row, {"\t"})
  IN IF tabs = {} THEN <<row>>
     ELSE LET t == CHOOSE i \in tabs : \A j \in tabs : i <= j
          IN <<SubSeq(row, 1, t - 1)>> \o Fields(From(row, t + 1))

\* The rows printed so far in the regular mode.
RowsNow == regular_rows(delivered, Len(delivered))

\* The fields of the positions of ps are filled and all others of the ten
\* are empty.
Fills(fields, ps) ==
  /\ Len(fields) = 10
  /\ \A i \in 1..10 : (fields[i] # <<>>) <=> i \in ps

\* C23.  Record export shape: the header row has ten tab-separated columns
\* and every row printed for a record has the same ten; a Domestic row
\* fills the first four and leaves the other six empty, a Foreign row
\* fills the first eight and leaves the last two empty, a Transit row
\* fills the first four and the last two and leaves the four exchange
\* columns empty.
C23_TenColumns ==
  /\ Len(Fields(header_row)) = 10
  /\ \A i \in 1..Len(RowsNow) :
       LET fields == Fields(RowsNow[i])
           type == regular_output(delivered, Len(delivered))[i].type
       IN CASE type = "DOMESTIC" -> Fills(fields, 1..4)
            [] type = "FOREIGN" -> Fills(fields, 1..8)
            [] type = "TRANSIT" -> Fills(fields, (1..4) \cup {9, 10})

\* The legs, in order, each as code(departure->arrival), with one space
\* between two legs: " ".join of the first n legs, for n >= 1.
RECURSIVE JoinedLegs(_, _)
JoinedLegs(transit_legs, n) ==
  IF n = 1 THEN transit_leg_str(transit_legs[1])
  ELSE JoinedLegs(transit_legs, n - 1) \o <<" ">>
         \o transit_leg_str(transit_legs[n])

\* C24.  The transit legs column of a Transit row is the legs of the
\* record, in order, each rendered as code(departure->arrival) and joined
\* by single spaces: for k legs it holds k - 1 spaces, and it neither
\* starts nor ends with a space.
C24_LegsColumn ==
  \A i \in 1..Len(RowsNow) :
    LET value == regular_output(delivered, Len(delivered))[i]
        fields == Fields(RowsNow[i])
    IN value.type = "TRANSIT"
       => /\ Len(fields) = 10
          /\ fields[10] # <<>>
          /\ fields[10][1] # " "
          /\ fields[10][Len(fields[10])] # " "
          /\ Cardinality(Positions(fields[10], {" "}))
               = Len(value.transit_legs) - 1
          /\ fields[10] = JoinedLegs(value.transit_legs,
                                     Len(value.transit_legs))

\* ord() of the bytes in the tables of the model; every other byte of the
\* model is a printable character of ASCII.
byte_ord == control_ord @@ printable_ord @@ lead_ord

\* The byte is in the class of string_escaper.
IsControl(c) ==
  /\ c \in DOMAIN byte_ord
  /\ byte_ord[c] \in (0..31) \cup (127..159)

\* The text begins with a character of two bytes.
TwoBytes(text) ==
  /\ Len(text) >= 2
  /\ text[1] \in DOMAIN lead_ord
  /\ text[2] \in DOMAIN byte_ord
  /\ byte_ord[text[2]] \in 128..191

\* The code point of the first character of a text of UTF-8; a byte
\* outside the tables counts as a printable character of ASCII, code 65.
CodePoint(text) ==
  IF TwoBytes(text)
  THEN (lead_ord[text[1]] - 192) * 64 + (byte_ord[text[2]] - 128)
  ELSE IF text[1] \in DOMAIN byte_ord THEN byte_ord[text[1]] ELSE 65

\* The text of UTF-8 with each character of code point 0x00 to 0x1F or
\* 0x7F to 0x9F replaced by a backslash, x and the two hexadecimal digits
\* of its code point, and every other character as it was.
RECURSIVE Escaped(_)
Escaped(text) ==
  IF text = <<>> THEN <<>>
  ELSE LET n == IF TwoBytes(text) THEN 2 ELSE 1
           code == CodePoint(text)
       IN (IF code \in (0..31) \cup (127..159)
           THEN <<"\\", "x", HexDigit[(code \div 16) + 1],
                  HexDigit[(code % 16) + 1]>>
           ELSE SubSeq(text, 1, n)) \o Escaped(From(text, n + 1))

\* The text is the escaped form of the source text and holds no byte of
\* the class.
EscapedFrom(text, source) ==
  /\ text = Escaped(source)
  /\ \A i \in 1..Len(text) : ~IsControl(text[i])

\* C25.  Control character escaping: every non-transaction line passed to
\* the action and every description and exchange currency of a delivered
\* record is the text of the line, or of the field in its line, with each
\* character of code point 0x00 to 0x1F or 0x7F to 0x9F replaced by a
\* backslash, x and its code in two hexadecimal digits and every other
\* character as it was; the escaped text holds no control character.
C25_Escaping ==
  \A j \in 1..Len(delivered) :
    LET tup == delivered[j]
        pos == StartOf(delivered, j)
    IN /\ IsNoiseParser(tup.sub_parser)
          => EscapedFrom(tup.value, input[pos])
       /\ IsRecordParser(tup.sub_parser)
          => /\ EscapedFrom(tup.value.description,
                  domestic_transaction_record_engine(input[pos]).groups[3])
             /\ tup.value.type = "FOREIGN"
                => EscapedFrom(tup.value.exchange_currency,
                     exchange_date_and_currency_engine(
                       input[pos + 1]).groups[3])

\* The rest of an amount from position p of u to the end of u, after the
\* leading digits: groups of a comma and three digits, a decimal point,
\* digits.
RECURSIVE PointedRest(_, _)
PointedRest(u, p) ==
  \/ /\ p + 3 <= Len(u)
     /\ u[p] = ","
     /\ AllDigits(SubSeq(u, p + 1, p + 3))
     /\ PointedRest(u, p + 4)
  \/ /\ p <= Len(u)
     /\ u[p] = "."
     /\ AllDigits(From(u, p + 1))

\* An amount with a decimal point: an optional '-', 1 to 3 digits, groups
\* of a comma and three digits, a decimal point, digits.
PointedAmount(t) ==
  LET u == IF Len(t) > 0 /\ t[1] = "-" THEN Tail(t) ELSE t
  IN \E n \in 1..3 : /\ n <= Len(u)
                     /\ AllDigits(SubSeq(u, 1, n))
                     /\ PointedRest(u, n + 1)

\* The line is a date, a space, a description, a space and an amount with
\* a decimal point.
PointedLeadLine(line) ==
  /\ month_day_rule(line, 1)
  /\ Len(line) >= 6 /\ line[6] = " "
  /\ \E k \in 7..Len(line) :
       line[k] = " " /\ PointedAmount(From(line, k + 1))

\* C26.  A line matches the domestic transaction pattern only if it ends
\* in an amount with a decimal point; a line that does not, given to the
\* record parser, is no transaction record: the call does not abort and
\* the line is delivered as a non-transaction line.
C26_DecimalPointRequired ==
  [][(/\ AtRecordParser
      /\ Len(input_sequence) > 0
      /\ ~PointedLeadLine(getitem(iom_now, 0)))
     => /\ ~domestic_transaction_record_engine(getitem(iom_now, 0)).matched
        /\ pc' = "running"
        /\ Len(delivered') = Len(delivered) + 1
        /\ IsNoiseParser(delivered'[Len(delivered')].sub_parser)]_vars

\* C27.  Termination: every run ends, by p returning False when the input
\* is exhausted or by an abort, and once it has ended it stays ended; a run
\* that ended by p returning False has consumed every line.
C27_Termination ==
  /\ <>[](pc \in {"exhausted", "aborted"})
  /\ [](pc = "exhausted" => input_sequence = <<>>)

\* A run has ended by exhaustion after a Transit record whose leg loop ran
\* into the end of the input.
C27_Witness ==
  /\ pc = "exhausted"
  /\ delivered # <<>>
  /\ IsRecordParser(last_delivered.sub_parser)
  /\ last_delivered.value.type = "TRANSIT"
  /\ Len(last_delivered.value.transit_legs) = 2
  /\ consumed[Len(consumed)] = TransitLegLine

\* The lines of the input from position i on are the given kinds of line,
\* one after the other.
IsExchangeDate(i) ==
  i \in 1..Len(input) /\ exchange_date_and_currency_engine(input[i]).matched

IsExchangeRate(i) ==
  i \in 1..Len(input) /\ exchange_rate_calculation_engine(input[i]).matched

IsTransitId(i) ==
  i \in 1..Len(input) /\ transit_leg_with_id_engine(input[i]).matched

IsTransitLeg(i) ==
  i \in 1..Len(input) /\ transit_leg_engine(input[i]).matched

IsLead(i) ==
  i \in 1..Len(input) /\ domestic_transaction_record_engine(input[i]).matched

\* The lead line at i is followed by the two lines of a foreign record and
\* then by the lines of a transit record.
ForeignThenTransit(i) ==
  /\ IsLead(i)
  /\ IsExchangeDate(i + 1)
  /\ IsExchangeRate(i + 2)
  /\ IsTransitId(i + 3)

\* The lead line at i is followed by the lines of a transit record and then
\* by the two lines of a foreign record.
TransitThenForeign(i) ==
  /\ IsLead(i)
  /\ IsTransitId(i + 1)
  /\ \E n \in 0..Len(input) :
       /\ \A k \in 1..n : IsTransitLeg(i + 1 + k)
       /\ IsExchangeDate(i + 2 + n)
       /\ IsExchangeRate(i + 3 + n)

ForeignAndTransit(i) == ForeignThenTransit(i) \/ TransitThenForeign(i)

\* C28.  Foreign and transit: once the lead line of a record that is both
\* foreign and transit has been reached the run has aborted, and no
\* transaction record is delivered for such a lead line.
C28_ForeignAndTransit ==
  /\ \A i \in 1..Len(input) :
       ForeignAndTransit(i) /\ Len(consumed) >= i => pc = "aborted"
  /\ \A j \in 1..Len(delivered) :
       IsRecordParser(delivered[j].sub_parser)
       => ~ForeignAndTransit(StartOf(delivered, j))

\* In PreTransaction state there is a next unconsumed line.
PreTransactionAhead ==
  /\ pc = "running"
  /\ state = PRE_TRANSACTION_STATE
  /\ Len(input_sequence) > 0

\* C29.  PreTransaction tolerates noise: a step in PreTransaction state
\* whose next line does not match the transaction pattern consumes that one
\* line, passes it escaped to the action as a non-transaction line and
\* stays in PreTransaction, header lines included; a step whose next line
\* matches the pattern delivers the record of that line and moves to
\* Transaction, unless building the record aborts the run (a date out of
\* range or outside the period, an amount that is no number, a rate line
\* without its date line), with nothing delivered.
C29_PreTransactionNoise ==
  [][PreTransactionAhead
     => IF ~domestic_transaction_record_engine(getitem(iom_now, 0)).matched
        THEN /\ pc' = "running"
             /\ state' = PRE_TRANSACTION_STATE
             /\ consumed' = Append(consumed, getitem(iom_now, 0))
             /\ Len(delivered') = Len(delivered) + 1
             /\ SubSeq(delivered', 1, Len(delivered)) = delivered
             /\ IsNoiseParser(delivered'[Len(delivered')].sub_parser)
             /\ delivered'[Len(delivered')].value
                  = escape_str(getitem(iom_now, 0))
        ELSE \/ /\ pc' = "aborted"
                /\ error' \in {"invalid_date", "unmapped_month", "ValueError",
                                "foreign_2nd_line"}
                /\ delivered' = delivered
             \/ /\ pc' = "running"
                /\ error' = "none"
                /\ state' = TRANSACTION_STATE
                /\ Len(delivered') = Len(delivered) + 1
                /\ SubSeq(delivered', 1, Len(delivered)) = delivered
                /\ IsRecordParser(delivered'[Len(delivered')].sub_parser)
                /\ RecordOfLead(delivered', Len(delivered'))
                /\ StartOf(delivered', Len(delivered')) = Len(consumed) + 1]_vars

\* After the header, the two lines of a second header and then a lead line
\* were read in PreTransaction state: the header lines were delivered as
\* two non-transaction lines and the record moved the machine to
\* Transaction.
C29_Witness ==
  /\ state = TRANSACTION_STATE
  /\ consumed = <<PeriodLine, DateOf, TransactionMerchantName, DateOf,
                  TransactionMerchantName, DomesticLine>>
  /\ Len(delivered) = 5
  /\ IsNoiseParser(delivered[3].sub_parser)
  /\ delivered[3].state = PRE_TRANSACTION_STATE
  /\ IsNoiseParser(delivered[4].sub_parser)
  /\ delivered[4].state = PRE_TRANSACTION_STATE
  /\ IsRecordParser(delivered[5].sub_parser)

\* The position of the last space of the line, 0 when it has none.
LastSpace(line) ==
  IF Positions(line, {" "}) = {} THEN 0
  ELSE CHOOSE k \in Positions(line, {" "}) :
         \A j \in Positions(line, {" "}) : j <= k

\* C30.  Description/amount split: the lead line of every record delivered
\* is split at its last space: the amount of the record is the text after
\* that space, the description is the text between the space after MM/DD
\* and that space, and the amount the pattern matched has no space in it;
\* and every lead line the transaction parser has consumed was matched
\* with an amount without a space.
C30_AmountSplit ==
  /\ \A j \in 1..Len(delivered) :
       IsRecordParser(delivered[j].sub_parser)
       => LET line == input[StartOf(delivered, j)]
              k == LastSpace(line)
              lead == domestic_transaction_record_engine(line)
          IN /\ lead.matched
             /\ k > 6
             /\ lead.groups[4] = From(line, k + 1)
             /\ lead.groups[3] = SubSeq(line, 7, k - 1)
             /\ delivered[j].value.amount = str_to_float(From(line, k + 1)).value
             /\ delivered[j].value.description
                  = escape_str(SubSeq(line, 7, k - 1))
  /\ \A i \in 4..Len(consumed) :
       domestic_transaction_record_engine(consumed[i]).matched
       => Positions(domestic_transaction_record_engine(consumed[i]).groups[4],
                    {" "}) = {}

\* C31.  Fatal conditions stop the run at once: the call of p that aborts
\* delivers nothing and leaves what was delivered as it was, it has
\* consumed the line it was called on, which is a period line or the lead
\* line of a record, and lines of that record only; and after an abort
\* there is no further step, so nothing more is consumed or delivered.
C31_AbortStops ==
  [][/\ pc = "running"
     /\ pc' = "aborted"
        => /\ delivered' = delivered
           /\ Len(consumed') \in (Len(consumed) + 1)..(Len(consumed) + 3)
           /\ consumed' = SubSeq(input, 1, Len(consumed'))
           /\ \/ domestic_transaction_record_engine(
                   input[Len(consumed) + 1]).matched
              \/ period_meta_data_engine(input[Len(consumed) + 1]).matched
           /\ error' # "none"]_vars

\* A record was delivered and the next lead line, of a month outside the
\* period, has aborted the run: the lead line is consumed and the record
\* is still the last thing delivered.
C31_Witness ==
  /\ pc = "aborted"
  /\ error = "unmapped_month"
  /\ consumed = <<PeriodLine, DateOf, TransactionMerchantName, DomesticLine,
                  UnmappedLine>>
  /\ Len(delivered) = 3
  /\ IsRecordParser(delivered[3].sub_parser)

\* A lead-shaped line is next and the machine is in MetaData or
\* NonTransaction state.
LeadBeforeHeader ==
  /\ pc = "running"
  /\ state \in {META_DATA_STATE, NON_TRANSACTION_STATE}
  /\ Len(input_sequence) > 0
  /\ domestic_transaction_record_engine(getitem(iom_now, 0)).matched

\* The jth tuple comes after the period and, after the period, a header.
AfterPeriodAndHeader(tuples, j) ==
  \E a \in 1..j : \E b \in 1..j :
    /\ a < b /\ b < j
    /\ tuples[a].sub_parser = "period_meta_data_record_parser"
    /\ tuples[b].sub_parser = "transaction_header_record_parser"

\* C32.  No transaction record before the header: every transaction record
\* delivered was delivered in PreTransaction or Transaction state, after
\* the period and a header; the transaction record parser is called in
\* those two states only, with a month to year table that is not empty;
\* and a lead-shaped line met in MetaData or NonTransaction state is
\* consumed and delivered as a non-transaction line, the state and the
\* table staying as they were.
C32_RecordsAfterHeader ==
  [][/\ \A j \in 1..Len(delivered') :
          IsRecordParser(delivered'[j].sub_parser)
          => /\ delivered'[j].state
                  \in {PRE_TRANSACTION_STATE, TRANSACTION_STATE}
             /\ AfterPeriodAndHeader(delivered', j)
     /\ \A i \in 1..Len(calls') :
          IsRecordParser(calls'[i].parser)
          => /\ state \in {PRE_TRANSACTION_STATE, TRANSACTION_STATE}
             /\ DOMAIN month_year_mapping # {}
     /\ LeadBeforeHeader
        => /\ pc' = "running"
           /\ state' = state
           /\ month_year_mapping' = month_year_mapping
           /\ consumed' = Append(consumed, getitem(iom_now, 0))
           /\ Len(delivered') = Len(delivered) + 1
           /\ SubSeq(delivered', 1, Len(delivered)) = delivered
           /\ IsNoiseParser(delivered'[Len(delivered')].sub_parser)
           /\ delivered'[Len(delivered')].value
                = escape_str(getitem(iom_now, 0))]_vars

\* A lead line before the period and a lead line after the period but
\* before any header were both delivered as non-transaction lines.
C32_Witness ==
  /\ consumed = <<DomesticLine, PeriodLine, DomesticLine>>
  /\ Len(delivered) = 3
  /\ IsNoiseParser(delivered[1].sub_parser)
  /\ delivered[1].state = META_DATA_STATE
  /\ delivered[2].sub_parser = "period_meta_data_record_parser"
  /\ IsNoiseParser(delivered[3].sub_parser)
  /\ delivered[3].state = NON_TRANSACTION_STATE
  /\ delivered[3].value = DomesticLine

\* C33.  Amounts convert: the amount of every consumed line that the
\* domestic pattern matches, and the two numbers of every consumed line
\* that the exchange rate pattern matches, are texts that str_to_float
\* converts; and a run aborts only by the range check, the unresolved
\* month or the ambiguous foreign record.
C33_AmountsConvert ==
  /\ \A i \in 1..Len(consumed) :
       /\ domestic_transaction_record_engine(consumed[i]).matched
          => str_to_float(
               domestic_transaction_record_engine(consumed[i]).groups[4]).ok
       /\ exchange_rate_calculation_engine(consumed[i]).matched
          => /\ str_to_float(
                  exchange_rate_calculation_engine(consumed[i]).groups[1]).ok
             /\ str_to_float(
                  exchange_rate_calculation_engine(consumed[i]).groups[2]).ok
  /\ pc = "aborted"
     => error \in {"invalid_date", "unmapped_month", "foreign_2nd_line"}

\* The jth tuple is the first transaction record delivered since the last
\* header delivered before it.
FirstOfBlock(tuples, j) ==
  \E b \in 1..j :
    /\ b < j
    /\ tuples[b].sub_parser = "transaction_header_record_parser"
    /\ \A k \in (b + 1)..(j - 1) : ~IsRecordParser(tuples[k].sub_parser)

\* C34.  State tags: a value is delivered with the state in which its line
\* was classified.  The period, a header and a transaction record carry
\* the state the call of p began in, which is MetaData for the period,
\* NonTransaction for a header, PreTransaction for the first record after
\* a header and Transaction for the later records; a non-transaction line
\* carries NonTransaction when the call began in Transaction state (the
\* failed match has left it) and otherwise the state the call began in.
C34_StateTags ==
  [][Len(delivered') > Len(delivered)
     => LET j == Len(delivered')
            tup == delivered'[j]
        IN /\ j = Len(delivered) + 1
           /\ IF IsNoiseParser(tup.sub_parser)
              THEN /\ tup.state = (IF state = TRANSACTION_STATE
                                   THEN NON_TRANSACTION_STATE ELSE state)
                   /\ state' = tup.state
              ELSE tup.state = state
           /\ tup.sub_parser = "period_meta_data_record_parser"
              => tup.state = META_DATA_STATE /\ state' = NON_TRANSACTION_STATE
           /\ tup.sub_parser = "transaction_header_record_parser"
              => tup.state = NON_TRANSACTION_STATE
                 /\ state' = PRE_TRANSACTION_STATE
           /\ IsRecordParser(tup.sub_parser)
              => /\ tup.state = (IF FirstOfBlock(delivered', j)
                                 THEN PRE_TRANSACTION_STATE
                                 ELSE TRANSACTION_STATE)
                 /\ state' = TRANSACTION_STATE]_vars

\* The period, a header, two records and a line that is no record were
\* delivered with the states MetaData, NonTransaction, PreTransaction,
\* Transaction and NonTransaction.
C34_Witness ==
  /\ Len(delivered) = 5
  /\ [i \in 1..5 |-> delivered[i].state]
       = <<META_DATA_STATE, NON_TRANSACTION_STATE, PRE_TRANSACTION_STATE,
           TRANSACTION_STATE, NON_TRANSACTION_STATE>>
  /\ IsRecordParser(delivered[3].sub_parser)
  /\ IsRecordParser(delivered[4].sub_parser)
  /\ IsNoiseParser(delivered[5].sub_parser)

\* The text holds no tab, no other control character of the model and no
\* newline.
NoRawControl(text) ==
  \A i \in 1..Len(text) : ~IsControl(text[i]) /\ text[i] # "\n"

\* The number of tab-separated fields of the rows of each record type.
FieldsOfType(type) ==
  CASE type = "DOMESTIC" -> 4
    [] type = "FOREIGN" -> 8
    [] type = "TRANSIT" -> 10

\* C35.  Escaping is idempotent and protects the row structure: escaping
\* the escaped form of an input line gives the escaped form; escaping a
\* delivered non-transaction line, description or exchange currency again
\* leaves it as it is; no description and no exchange currency of a
\* delivered record holds a raw tab, newline or other control character;
\* and the row of a record has the number of tab-separated fields of its
\* type, whatever its texts.
C35_EscapeIdempotent ==
  /\ \A i \in 1..Len(input) :
       escape_str(escape_str(input[i])) = escape_str(input[i])
  /\ \A j \in 1..Len(delivered) :
       LET tup == delivered[j]
       IN /\ IsNoiseParser(tup.sub_parser)
             => /\ escape_str(tup.value) = tup.value
                /\ NoRawControl(tup.value)
          /\ IsRecordParser(tup.sub_parser)
             => /\ escape_str(tup.value.description) = tup.value.description
                /\ NoRawControl(tup.value.description)
                /\ tup.value.type = "FOREIGN"
                   => /\ escape_str(tup.value.exchange_currency)
                           = tup.value.exchange_currency
                      /\ NoRawControl(tup.value.exchange_currency)
                /\ Len(Fields(record_str(tup.value)))
                     = FieldsOfType(tup.value.type)

\* A Foreign record was delivered whose currency was written as a tab and
\* a backslash: the tab is escaped, the backslash is kept, and the row has
\* the eight fields of a Foreign row.
C35_Witness ==
  /\ delivered # <<>>
  /\ IsRecordParser(last_delivered.sub_parser)
  /\ last_delivered.value.type = "FOREIGN"
  /\ consumed[5] = ExchangeDateLineIn(<<"\t", "\\">>)
  /\ last_delivered.value.exchange_currency = <<"\\", "x", "0", "9", "\\">>
  /\ Len(Fields(record_str(last_delivered.value))) = 8

\* No line of the input matches the statement period pattern.
NoPeriodLine ==
  \A i \in 1..Len(input) : ~statement_period_engine(input[i]).matched

\* C36.  Older variant, missing period: when no line of the input matches
\* the statement period pattern, the first call of p consumes every line
\* and aborts on the assertion "Failed to find statement period in
\* input."; the run never ends normally, never leaves MetaData state and
\* prints no record.
C36_MissingPeriodAborts ==
  [][NoPeriodLine
     => /\ pc = "running"
        /\ consumed = <<>>
        /\ pc' = "aborted"
        /\ error' = "no_statement_period"
        /\ consumed' = input
        /\ state' = META_DATA_STATE
        /\ delivered' = <<>>]_vars

\* A header and a lead line without a period before them were consumed
\* and the run has aborted with nothing printed.
C36_Witness ==
  /\ input = <<DateOf, TransactionMerchantName, DomesticLine>>
  /\ pc = "aborted"
  /\ error = "no_statement_period"
  /\ consumed = input
  /\ delivered = <<>>

\* The input is the period, a header, a block of lead lines that ends at
\* line i - 1, and directly after it a header at lines i and i + 1,
\* followed by a lead line.
HeaderDirectlyAfterBlock(i) ==
  /\ i \in 5..(Len(input) - 2)
  /\ SubSeq(input, 1, 3) = <<PeriodLine, DateOf, TransactionMerchantName>>
  /\ \A k \in 4..(i - 1) : input[k] = DomesticLine
  /\ input[i] = DateOf
  /\ input[i + 1] = TransactionMerchantName
  /\ input[i + 2] = DomesticLine

\* C37.  Older variant, header after a block: when a run has ended
\* normally, the lead line that follows a header which directly follows
\* the last record of a block has been printed as a record, after the
\* records of that block.
C37_HeaderAfterBlockFound ==
  pc = "exhausted"
  => \A i \in 1..Len(input) :
       HeaderDirectlyAfterBlock(i)
       => /\ Len(delivered) >= i - 3
          /\ delivered[i - 3].type = "DOMESTIC"
          /\ delivered[i - 3].description = <<"A">>

\* No pattern of the grammar matches the line: not the period, the two
\* header lines, a lead line, the two foreign lines or a transit leg.
MatchesNothing(line) ==
  /\ ~period_meta_data_engine(line).matched
  /\ line # DateOf
  /\ line # TransactionMerchantName
  /\ ~domestic_transaction_record_engine(line).matched
  /\ ~exchange_date_and_currency_engine(line).matched
  /\ ~exchange_rate_calculation_engine(line).matched
  /\ ~transit_leg_engine(line).matched
  /\ ~transit_leg_with_id_engine(line).matched

\* C38.  Peeked lines exist: no run fails with "Input ended while consuming
\* peeked lines"; a lookahead past the end of the input gives the empty
\* string, which no pattern matches; and the lines consumed so far followed
\* by the lines still held are the lines of the input, so every line a
\* matcher consumed was there.
C38_PeekedLinesExist ==
  /\ error # "peeked_lines"
  /\ \A n \in 0..2 :
       Len(input_sequence) <= n
       => /\ getitem(iom_now, n) = <<>>
          /\ MatchesNothing(getitem(iom_now, n))
  /\ consumed \o Reverse(input_sequence) = input

\* A lead line was the last line of the input: it matched on lookahead and
\* was consumed, the lookaheads at the lines after it went past the end,
\* and the run ended normally with its record delivered.
C38_Witness ==
  /\ input = <<PeriodLine, DateOf, TransactionMerchantName, DomesticLine>>
  /\ consumed = input
  /\ input_sequence = <<>>
  /\ pc = "exhausted"
  /\ error = "none"
  /\ Len(delivered) = 3
  /\ IsRecordParser(delivered[3].sub_parser)

\* C39.  MetaData state and pending parsers: in every reachable state the
\* state is one of the four parser states and is MetaData exactly when the
\* list of pending meta-data parsers is not empty, and no run fails on the
\* assertion that a meta-data parser is available or on the assertion on
\* an invalid parser state.
C39_MetaDataIffPending ==
  /\ state \in {META_DATA_STATE, NON_TRANSACTION_STATE,
                PRE_TRANSACTION_STATE, TRANSACTION_STATE}
  /\ (state = META_DATA_STATE) <=> (Len(meta_data_parsers) > 0)
  /\ error \notin {"no_meta_data_parser", "invalid_state"}

\* The period was matched after a line of noise, its parser was popped and
\* the machine has left MetaData state with no parser pending.
C39_Witness ==
  /\ Len(input) >= 2
  /\ input[1] = NoiseLine
  /\ input[2] = PeriodLine
  /\ Len(consumed) >= 2
  /\ state # META_DATA_STATE
  /\ meta_data_parsers = <<>>
  /\ pc = "running"
  /\ Len(delivered) = 2
  /\ delivered[1].state = META_DATA_STATE
  /\ delivered[2].state = META_DATA_STATE
  /\ delivered[2].sub_parser = "period_meta_data_record_parser"

====
